---------------------------- MODULE Spec2Model ----------------------------
(***************************************************************************)
(* A model of the smart-agent backend: the LangGraph workflow of           *)
(* backend/src/core/graph.py (state channels, reducers, barrier, fan-out,  *)
(* aggregation), the per-thread write locks of the auto-reconnecting       *)
(* checkpointer, and the ownership check of the stream endpoint.           *)
(*                                                                         *)
(* Python values are written as follows: None is the string "None" where   *)
(* the other values of the field are strings, and the tagged record PyNone *)
(* where they are lists; a dict is a record, and "key in dict" is          *)
(* key \in DOMAIN dict.                                                    *)
(***************************************************************************)
EXTENDS Integers, Sequences, FiniteSets, TLC

\* ------------------------------------------------------------------ bounds
\* Turns (graph runs) on the one thread whose checkpoint is modelled.
MaxTurns == 2
\* len(plan["stages"]) of a plan the planner LLM returns.
MaxStages == 2
\* len(stage["steps"]) of one stage.
MaxSteps == 2
\* Records one tool call returns.
MaxRows == 1

VARIABLES
    pc,                \* the node the engine runs next ("idle": no run in progress)
    turn,              \* runs started on the thread so far
    state,             \* the AppState channels kept in the thread's checkpoint
    sends,             \* Send targets of the worker superstep in progress
    writes,            \* what the workers of that superstep have returned so far
    stage_log,         \* per stage: barrier added, workers dispatched, workers that wrote waiting -1
    approval_emitted,  \* this run has emitted approval_required
    kg_tool,           \* the last tool the KG worker invoked in this run
    red,               \* reducer check: <<current, update>>
    red_out,           \* reducer check: result of the last application
    wl_pc,             \* checkpointer: position of each writer
    wl_call,           \* checkpointer: the call each writer makes
    wl_locks,          \* checkpointer: _write_locks, key -> holder
    threads,           \* thread store: thread id -> stored owner
    messages,          \* thread store: persisted (thread, role, user) rows
    req,               \* stream endpoint: the request in progress
    events,            \* stream endpoint: SSE events of the request in progress
    graph_runs,        \* stream endpoint: graph runs started, as <<thread, user>>
    last,              \* thread endpoints: the last request answered at once, with its response
    now,               \* connection: the clock (time.time())
    conn,              \* connection: _saver and _connection_created_at
    conn_lock,         \* connection: holder of self._lock (0: free)
    callers,           \* connection: the checkpointer operations in progress
    ap,                \* adapter: one MinimalCheckpointerAdapter.aput call
    js,                \* adapter: one value written through _to_jsonable and read back
    pl,                \* planner: one call of plan_node and what it gave
    event_queue,       \* stream: everything put on event_queue, in order
    consumed,          \* stream: how many items the consumer loop has taken
    producer,          \* stream: position of run_graph_and_finalize
    consumer,          \* stream: position of the consumer loop
    run,               \* stream: DEBUG_GRAPH_EVENTS, has_streamed_content, result of the run
    cb,                \* callback: current_content, has_streamed_content, tool_calls of one request
    pushed,            \* callback: the events stream_callback has pushed, in order
    vec,               \* vector sub-graph: the channels its nodes read and write
    vnode,             \* vector sub-graph: the node that runs next
    vtrail,            \* vector sub-graph: the nodes that have run, in order
    sq,                \* SQL builder: one call of a builder, its arguments and what it gave
    STREAM_CALLBACKS,  \* callback registry: thread id -> request registered
    runs,              \* callback registry: per request its thread, position, calls
    sse_queues         \* callback registry: per request what was put on its queue

vars == <<pc, turn, state, sends, writes, stage_log, approval_emitted,
          kg_tool, red, red_out, wl_pc, wl_call, wl_locks, threads, messages,
          req, events, graph_runs, last, now, conn, conn_lock, callers, ap,
          js, pl, event_queue, consumed, producer, consumer, run, cb, pushed,
          vec, vnode, vtrail, sq, STREAM_CALLBACKS, runs, sse_queues>>

graphVars == <<pc, turn, state, sends, writes, stage_log, approval_emitted, kg_tool>>
reducerVars == <<red, red_out>>
lockVars == <<wl_pc, wl_call, wl_locks>>
streamVars == <<threads, messages, req, events, graph_runs, last>>
connVars == <<now, conn, conn_lock, callers>>
aputVars == <<ap>>
jsonVars == <<js>>
planVars == <<pl>>
queueVars == <<event_queue, consumed, producer, consumer, run>>
chunkVars == <<cb, pushed>>
vectorVars == <<vec, vnode, vtrail>>
sqlVars == <<sq>>
registryVars == <<STREAM_CALLBACKS, runs, sse_queues>>

\* what the actions of one group leave unchanged
graphOthers == <<reducerVars, lockVars, streamVars, connVars, aputVars, jsonVars, planVars, queueVars, chunkVars, vectorVars, sqlVars, registryVars>>
reducerOthers == <<graphVars, lockVars, streamVars, connVars, aputVars, jsonVars, planVars, queueVars, chunkVars, vectorVars, sqlVars, registryVars>>
lockOthers == <<graphVars, reducerVars, streamVars, connVars, aputVars, jsonVars, planVars, queueVars, chunkVars, vectorVars, sqlVars, registryVars>>
streamOthers == <<graphVars, reducerVars, lockVars, connVars, aputVars, jsonVars, planVars, queueVars, chunkVars, vectorVars, sqlVars, registryVars>>
connOthers == <<graphVars, reducerVars, lockVars, streamVars, aputVars, jsonVars, planVars, queueVars, chunkVars, vectorVars, sqlVars, registryVars>>
aputOthers == <<graphVars, reducerVars, lockVars, streamVars, connVars, jsonVars, planVars, queueVars, chunkVars, vectorVars, sqlVars, registryVars>>
jsonOthers == <<graphVars, reducerVars, lockVars, streamVars, connVars, aputVars, planVars, queueVars, chunkVars, vectorVars, sqlVars, registryVars>>
planOthers == <<graphVars, reducerVars, lockVars, streamVars, connVars, aputVars, jsonVars, queueVars, chunkVars, vectorVars, sqlVars, registryVars>>
queueOthers == <<graphVars, reducerVars, lockVars, streamVars, connVars, aputVars, jsonVars, planVars, chunkVars, vectorVars, sqlVars, registryVars>>
chunkOthers == <<graphVars, reducerVars, lockVars, streamVars, connVars, aputVars, jsonVars, planVars, queueVars, vectorVars, sqlVars, registryVars>>
vectorOthers == <<graphVars, reducerVars, lockVars, streamVars, connVars, aputVars, jsonVars, planVars, queueVars, chunkVars, sqlVars, registryVars>>
sqlOthers == <<graphVars, reducerVars, lockVars, streamVars, connVars, aputVars, jsonVars, planVars, queueVars, chunkVars, vectorVars, registryVars>>
registryOthers == <<graphVars, reducerVars, lockVars, streamVars, connVars, aputVars, jsonVars, planVars, queueVars, chunkVars, vectorVars, sqlVars>>

\* ---------------------------------------------------------------- reducers
PyNone == [t |-> "none"]
PyList(s) == [t |-> "list", v |-> s]
PyOther == [t |-> "other"]

\* A reducer that lets an empty-list update clear the channel.
clearable_list_reducer_clearing_on_empty(current, update) ==
    IF update = PyNone THEN <<>>
    ELSE IF current = PyNone
         THEN (IF update.t = "list" THEN update.v ELSE <<>>)
    ELSE IF update.t = "list" THEN (IF update.v = <<>> THEN <<>> ELSE current.v \o update.v)
    ELSE current.v

\* graph.py clearable_list_reducer_v2(current, update); the result is always a list.
clearable_list_reducer_v2(current, update) ==
    IF update = PyNone THEN <<>>
    ELSE IF current = PyNone
         THEN (IF update.t = "list" THEN update.v ELSE <<>>)
    ELSE IF update.t = "list"
         THEN (IF update.v = <<>> THEN current.v ELSE current.v \o update.v)
    ELSE current.v

\* operator.add, the reducer of waiting.
operator_add(current, update) == current + update


\* ------------------------------------------------------ the graph's state
None == "None"

\* dict.get(key): None when the key is absent.
Get(d, key) == IF key \in DOMAIN d THEN d[key] ELSE None

\* Evidence records are <<source, i>>; a tool that returns k records returns
\* the first k records of its source.
Rows(src, k) == [i \in 1..k |-> <<src, i>>]

Calls == {"sql", "vec", "kg"}

\* A step of a plan as the nodes read it: step["call"] and step.get("when", True).
\* step["args"] is read by nobody but the worker the step is sent to, and is
\* drawn there.
StepSet == [call : Calls, when : BOOLEAN]

SeqsUpTo(S, n) == UNION {[1..k -> S] : k \in 0..n}

StageSet == [parallel : BOOLEAN, steps : SeqsUpTo(StepSet, MaxSteps)]

EmptyStage == [parallel |-> FALSE, steps |-> <<>>]

\* AppState (graph.py): the channels the nodes below read or write.  A key a
\* node returns that is no field of AppState (already_streamed,
\* tool_candidates, stream_callback) is no channel: the engine drops it and
\* state.get of it is None.
\* plan is kept as the two things the graph reads from it, len(plan["stages"])
\* and plan["stages"][stage_index]: a stage is drawn when stage_index first
\* reaches it, no node reads a stage before that.
InitState ==
    [intent |-> None,
     candidate_tool_calls |-> None,
     plan |-> [nstages |-> 0, stage |-> EmptyStage],
     stage_index |-> 0,
     sql_results |-> <<>>,
     vec_results |-> <<>>,
     kg_results |-> <<>>,
     merged |-> <<>>,
     waiting |-> 0,
     agg_route |-> None]

ListChannels == {"sql_results", "vec_results", "kg_results", "merged"}

\* The update phase of a superstep for one task's writes: each key of the
\* returned dict that is a channel goes through the channel's reducer
\* (Annotated[...] in AppState), a channel without reducer is overwritten.
ApplyWrites(s, upd) ==
    LET R(k) == IF k \notin DOMAIN upd THEN s[k]
                ELSE IF k \in ListChannels
                     THEN clearable_list_reducer_v2(PyList(s[k]), upd[k])
                ELSE IF k = "waiting" THEN operator_add(s[k], upd[k])
                ELSE upd[k]
    IN [intent |-> R("intent"),
        candidate_tool_calls |-> R("candidate_tool_calls"),
        plan |-> R("plan"),
        stage_index |-> R("stage_index"),
        sql_results |-> R("sql_results"),
        vec_results |-> R("vec_results"),
        kg_results |-> R("kg_results"),
        merged |-> R("merged"),
        waiting |-> R("waiting"),
        agg_route |-> R("agg_route")]

RECURSIVE ApplyAll(_, _)
\* The writes of the tasks of one superstep, applied in task order.
ApplyAll(s, ws) ==
    IF ws = <<>> THEN s ELSE ApplyAll(ApplyWrites(s, Head(ws)), Tail(ws))

\* ------------------------------------------------------------ collect_base
APPROVAL_NEEDED_TOOLS == {"graphiti_ingest_detect_tool", "graphiti_ingest_commit_tool"}

\* Tools the probe LLM (bound to ALL_TOOLS_LIST) may propose.
ProbeTools == APPROVAL_NEEDED_TOOLS \cup {"mysql_simple_query_tool"}

\* What the LLM call of collect_base_data does: it raises, or (tool branch)
\* returns a message with the given tool_calls.
ProbeOutcomes == {[raises |-> TRUE, tool_calls |-> {}]}
                 \cup {[raises |-> FALSE, tool_calls |-> c] : c \in SUBSET ProbeTools}

\* [] where the source writes None: the reducer's no-op
init_data_writing_empty_lists ==
    [sql_results |-> PyList(<<>>), vec_results |-> PyList(<<>>),
     kg_results |-> PyList(<<>>), merged |-> PyList(<<>>)]
\* init_data of collect_base_data: None, the clearing signal, for the four
\* evidence fields
init_data ==
    [sql_results |-> PyNone, vec_results |-> PyNone, kg_results |-> PyNone,
     merged |-> PyNone]

needs_approval(o) == o.tool_calls \cap APPROVAL_NEEDED_TOOLS # {}

\* The dict collect_base_data returns for state s and LLM outcome o.
collect_base_data(s, o) ==
    IF s.intent = "regular"
    THEN IF o.raises
         THEN init_data @@ [intent |-> s.intent]
         ELSE init_data @@ [intent |-> s.intent, already_streamed |-> "True"]
    ELSE IF o.raises THEN init_data @@ [intent |-> s.intent]
    ELSE IF needs_approval(o) THEN init_data @@ [intent |-> s.intent]
    ELSE IF o.tool_calls # {}
         THEN init_data @@ [intent |-> s.intent, candidate_tool_calls |-> "True",
                            tool_candidates |-> o.tool_calls]
    ELSE init_data @@ [intent |-> s.intent, candidate_tool_calls |-> "False",
                       tool_candidates |-> {}]

\* create_graph._route_after_collect, on the state after the update phase.
route_after_collect(s) ==
    IF Get(s, "already_streamed") = "True" THEN "END"
    ELSE IF Get(s, "intent") # "tool" THEN "simple"
    ELSE IF Get(s, "candidate_tool_calls") = "True" THEN "tools"
    ELSE "simple"

AfterCollect(r) ==
    CASE r = "END" -> "idle"
      [] r = "simple" -> "simple_response"
      [] r = "tools" -> "planner"


\* ----------------------------------------------------------------- planner
\* [s for s in raw_steps if s.get("when", True) is not False]
RECURSIVE exec_steps(_)
exec_steps(steps) ==
    IF steps = <<>> THEN <<>>
    ELSE IF Head(steps).when THEN <<Head(steps)>> \o exec_steps(Tail(steps))
    ELSE exec_steps(Tail(steps))

\* What the structured-output call of plan_node does: it raises (LLM error,
\* invalid JSON, schema violation) or returns a _PlanModel with n stages whose
\* first stage is first.
PlannerOutcomes ==
    {[raises |-> TRUE, nstages |-> 0, first |-> EmptyStage]}
    \cup {[raises |-> FALSE, nstages |-> 0, first |-> EmptyStage]}
    \cup {[raises |-> FALSE, nstages |-> n, first |-> g] : n \in 1..MaxStages, g \in StageSet}

\* The fallback plan of plan_node for the call its keyword match selects.
fallback_plan(call) ==
    [nstages |-> 1,
     stage |-> [parallel |-> FALSE, steps |-> <<[call |-> call, when |-> TRUE]>>]]

\* get_last_user_message(state["messages"]) or "": the content of the last
\* HumanMessage.  It is a string, kept here as the keyword lists of the
\* fallback it has a word of, or the list of content parts the server leaves
\* in a message with an image that the vision step did not turn into text.
UserText(words) == [py |-> "str", words |-> words]
ContentParts == [py |-> "list", words |-> {}]
UserTexts ==
    {UserText({}), UserText({"sql"}), UserText({"kg"}), UserText({"sql", "kg"}),
     ContentParts}

\* lines 719-737: sql keywords first, then kg keywords, else vec
fallback_call(user_text) ==
    IF "sql" \in user_text.words THEN "sql"
    ELSE IF "kg" \in user_text.words THEN "kg"
    ELSE "vec"

\* plan_node for LLM outcome o and last user message user_text: the dict it
\* returns, or the exception of the outer handler, whose user_text.lower()
\* (line 716) is no method of a list.
plan_node(o, user_text) ==
    IF o.raises \/ o.nstages = 0 \/ exec_steps(o.first.steps) = <<>>
    THEN IF user_text.py = "str"
         THEN [raises |-> FALSE,
               out |-> [plan |-> fallback_plan(fallback_call(user_text)),
                        stage_index |-> 0,
                        sql_results |-> PyList(<<>>), vec_results |-> PyList(<<>>),
                        kg_results |-> PyList(<<>>), merged |-> PyList(<<>>)]]
         ELSE [raises |-> TRUE, out |-> <<>>]
    ELSE [raises |-> FALSE,
          out |-> [plan |-> [nstages |-> o.nstages, stage |-> o.first],
                   stage_index |-> 0]]

\* ------------------------------------------------- barrier and orchestrator
\* The dict set_barrier returns.
set_barrier(s) ==
    IF s.stage_index >= s.plan.nstages THEN [waiting |-> 0]
    ELSE LET steps == exec_steps(s.plan.stage.steps)
         IN IF steps = <<>> THEN [waiting |-> 0]
            ELSE [waiting |-> IF s.plan.stage.parallel THEN Len(steps) ELSE 1]

WorkerOf(call) ==
    CASE call = "sql" -> "SQL_Subgraph"
      [] call = "vec" -> "Vector_Subgraph"
      [] call = "kg" -> "KG_Subgraph"

\* assign_workers_by_plan: the Send targets of the current stage.
assign_workers_by_plan(s) ==
    IF s.stage_index >= s.plan.nstages THEN <<>>
    ELSE LET steps == exec_steps(s.plan.stage.steps)
         IN IF steps = <<>> THEN <<>>
            ELSE IF s.plan.stage.parallel
                 THEN [i \in 1..Len(steps) |-> WorkerOf(steps[i].call)]
            ELSE <<WorkerOf(steps[1].call)>>

\* ----------------------------------------------------------------- workers
\* What a tool call does: it raises, or returns rows records.
ToolOutcomes == {[raises |-> TRUE, rows |-> 0]}
                \cup {[raises |-> FALSE, rows |-> k] : k \in 0..MaxRows}

\* The shapes of sql_in that SQL_Subgraph tells apart.
SqlArgs == {"table_fields", "query_draft_dict", "query_draft_str", "other"}

\* The dict SQL_Subgraph returns for sql_in of shape a and tool outcome o.
SQL_Subgraph(a, o) ==
    IF a = "query_draft_str" THEN [sql_results |-> PyList(<<>>), waiting |-> -1]
    ELSE IF o.raises THEN [sql_results |-> PyList(<<>>)]
    ELSE [sql_results |-> PyList(Rows("sql", o.rows)), waiting |-> -1]

\* kg_in["type"] values KG_Subgraph tells apart, with the tool each invokes.
KgSearch == {"graph.search"}
KgWrites == {"graph.write.episode", "graph.write.entity", "graph.write.edge",
             "graph.ingest.detect", "graph.ingest.commit"}
KgTypes == KgSearch \cup KgWrites \cup {"other"}

KgToolOf(ty) ==
    CASE ty = "graph.search" -> "graphiti_search_tool"
      [] ty = "graph.write.episode" -> "graphiti_add_episode_tool"
      [] ty = "graph.write.entity" -> "graphiti_add_entity_tool"
      [] ty = "graph.write.edge" -> "graphiti_add_edge_tool"
      [] ty = "graph.ingest.detect" -> "graphiti_ingest_detect_tool"
      [] ty = "graph.ingest.commit" -> "graphiti_ingest_commit_tool"
      [] OTHER -> "none"

KgWriteTools == {KgToolOf(ty) : ty \in KgWrites}

\* The dict KG_Subgraph returns for kg_in of type ty and outcome o of its body
\* (o.raises: the tool call, or the handling of kg_in["args"], raises).
KG_Subgraph(ty, o) ==
    IF o.raises THEN [kg_results |-> PyList(<<>>)]
    ELSE IF ty \notin KgSearch \cup KgWrites
         THEN [kg_results |-> PyList(<<>>), waiting |-> -1]
    ELSE IF ty \in KgSearch THEN [kg_results |-> PyList(Rows("kg", o.rows)), waiting |-> -1]
    ELSE [kg_results |-> PyList(Rows("kg", 1)), waiting |-> -1]

\* settings.rag_attempts_max
rag_attempts_max == 1

\* One vector_fetch_evidence + vector_assess: the candidates fetched and whether
\* the assessment is low (hits = 0 or top1 < rag_min_score).
FetchOutcomes == {[rows |-> k, low |-> l] : k \in 0..MaxRows, l \in BOOLEAN}
                 \ {[rows |-> 0, low |-> FALSE]}

\* one rewrite more than rag_attempts_max
vector_assess_allowing_one_more(f, attempts) ==
    IF f.low /\ attempts <= rag_attempts_max THEN "rewrite"
    ELSE IF f.low THEN "fallback"
    ELSE "answer"
\* vector_assess: the decision for a fetch f after attempts rewrites.
vector_assess(f, attempts) ==
    IF f.low /\ attempts < rag_attempts_max THEN "rewrite"
    ELSE IF f.low THEN "fallback"
    ELSE "answer"

RECURSIVE Vector_Subgraph(_, _, _)
\* The output of the compiled vector sub-graph: fs are the outcomes of its
\* successive fetches, attempts is retrieval_attempts, answer_raises tells
\* whether the LLM stream of vector_answer raises.
Vector_Subgraph(fs, attempts, answer_raises) ==
    LET dec == vector_assess(Head(fs), attempts)
    IN IF dec = "rewrite" THEN Vector_Subgraph(Tail(fs), attempts + 1, answer_raises)
       ELSE IF dec = "fallback" \/ answer_raises
            THEN [vec_results |-> PyList(<<>>), waiting |-> -1]
       ELSE [vec_results |-> PyList(Rows("vector", Head(fs).rows)), waiting |-> -1]

\* -------------------------------------------------------------- aggregator
\* The dict aggregate_normalize_optional returns.
aggregate_normalize_optional(s) ==
    LET merged == s.sql_results \o s.vec_results \o s.kg_results
        present == {k \in {"sql_results", "kg_results", "vec_results"} : s[k] # <<>>}
        deterministic == present # {} /\ present \subseteq {"sql_results", "kg_results"}
                         /\ merged # <<>>
        more == s.stage_index + 1 < s.plan.nstages
        route == IF more THEN "more" ELSE IF deterministic THEN "fast" ELSE "done"
        nxt == [merged |-> PyList(merged), agg_route |-> route]
    IN IF more THEN nxt @@ [stage_index |-> s.stage_index + 1] ELSE nxt

\* create_graph._route_from_agg and the edge map of the aggregator.
route_from_agg(s) ==
    CASE s.agg_route = "more" -> "Orchestrator"
      [] s.agg_route = "fast" -> "response_writer"
      [] s.agg_route = "done" -> "response_writer"


\* ------------------------------------------------- the graph run: actions
NoStage == [added |-> 0, n |-> 0, dec |-> 0]

GraphInit ==
    /\ pc = "idle"
    /\ turn = 0
    /\ state = InitState
    /\ sends = <<>>
    /\ writes = <<>>
    /\ stage_log = NoStage
    /\ approval_emitted = FALSE
    /\ kg_tool = "none"

\* server.py run_graph_and_finalize: graph.ainvoke(state_payload, config) on
\* the thread; the payload writes intent = None (GraphState.to_dict), every
\* other channel keeps the value of the thread's last checkpoint.
\* intent_slot_detect writes none of the channels modelled here.
StartTurn ==
    /\ pc = "idle"
    /\ turn < MaxTurns
    /\ turn' = turn + 1
    /\ state' = ApplyWrites(state, [intent |-> None])
    /\ pc' = "detect_intent"
    /\ stage_log' = NoStage
    /\ approval_emitted' = FALSE
    /\ kg_tool' = "none"
    /\ UNCHANGED <<sends, writes>>
    /\ UNCHANGED graphOthers

\* detect_intent: the rule or the LLM decides.
DetectIntent ==
    /\ pc = "detect_intent"
    /\ \E i \in {"regular", "tool"} : state' = ApplyWrites(state, [intent |-> i])
    /\ pc' = "collect_base_data"
    /\ UNCHANGED <<turn, sends, writes, stage_log, approval_emitted, kg_tool>>
    /\ UNCHANGED graphOthers

\* collect_base_data, the update phase and the conditional edge after it.
CollectBase ==
    /\ pc = "collect_base_data"
    /\ \E o \in ProbeOutcomes :
          /\ (state.intent = "regular" => o.tool_calls = {})
          /\ state' = ApplyWrites(state, collect_base_data(state, o))
          /\ approval_emitted' = (state.intent # "regular" /\ ~o.raises /\ needs_approval(o))
    /\ pc' = AfterCollect(route_after_collect(state'))
    /\ UNCHANGED <<turn, sends, writes, stage_log, kg_tool>>
    /\ UNCHANGED graphOthers

\* simple_response, then END.
SimpleResponse ==
    /\ pc = "simple_response"
    /\ state' = ApplyWrites(state, [intent |-> state.intent])
    /\ pc' = "idle"
    /\ UNCHANGED <<turn, sends, writes, stage_log, approval_emitted, kg_tool>>
    /\ UNCHANGED graphOthers

\* plan_node, then the edge to set_barrier; an exception of the node ends
\* the run with the thread's state as the last superstep left it.
Planner ==
    /\ pc = "planner"
    /\ \E o \in PlannerOutcomes, user_text \in UserTexts :
          LET r == plan_node(o, user_text) IN
          IF r.raises
          THEN /\ state' = state
               /\ pc' = "idle"
          ELSE /\ state' = ApplyWrites(state, r.out)
               /\ pc' = "set_barrier"
    /\ UNCHANGED <<turn, sends, writes, stage_log, approval_emitted, kg_tool>>
    /\ UNCHANGED graphOthers

\* set_barrier, then the edge to Orchestrator.
SetBarrier ==
    /\ pc = "set_barrier"
    /\ state' = ApplyWrites(state, set_barrier(state))
    /\ stage_log' = [stage_log EXCEPT !.added = set_barrier(state).waiting]
    /\ pc' = "Orchestrator"
    /\ UNCHANGED <<turn, sends, writes, approval_emitted, kg_tool>>
    /\ UNCHANGED graphOthers

\* orchestrator_node (returns {}) and its conditional edge: the Sends are the
\* tasks of the next superstep; no Send, no next task: the run ends.
Orchestrator ==
    /\ pc = "Orchestrator"
    /\ sends' = assign_workers_by_plan(state)
    /\ writes' = <<>>
    /\ stage_log' = [stage_log EXCEPT !.n = Len(sends')]
    /\ pc' = IF sends' = <<>> THEN "idle" ELSE "workers"
    /\ UNCHANGED <<turn, state, approval_emitted, kg_tool>>
    /\ UNCHANGED graphOthers

\* The next task of the worker superstep that has not returned yet.  The tasks
\* of a superstep share nothing until the update phase, which applies their
\* writes in task order, so they are run here in that order.
NextWorker == sends[Len(writes) + 1]

RunSQL ==
    /\ pc = "workers" /\ Len(writes) < Len(sends)
    /\ NextWorker = "SQL_Subgraph"
    /\ \E a \in SqlArgs, o \in ToolOutcomes : writes' = Append(writes, SQL_Subgraph(a, o))
    /\ UNCHANGED <<pc, turn, state, sends, stage_log, approval_emitted, kg_tool>>
    /\ UNCHANGED graphOthers

RunKG ==
    /\ pc = "workers" /\ Len(writes) < Len(sends)
    /\ NextWorker = "KG_Subgraph"
    /\ \E ty \in KgTypes, o \in ToolOutcomes :
          /\ writes' = Append(writes, KG_Subgraph(ty, o))
          /\ kg_tool' = IF o.raises \/ KgToolOf(ty) = "none" THEN kg_tool ELSE KgToolOf(ty)
    /\ UNCHANGED <<pc, turn, state, sends, stage_log, approval_emitted>>
    /\ UNCHANGED graphOthers

RunVector ==
    /\ pc = "workers" /\ Len(writes) < Len(sends)
    /\ NextWorker = "Vector_Subgraph"
    /\ \E fs \in [1..(rag_attempts_max + 1) -> FetchOutcomes], r \in BOOLEAN :
          writes' = Append(writes, Vector_Subgraph(fs, 0, r))
    /\ UNCHANGED <<pc, turn, state, sends, stage_log, approval_emitted, kg_tool>>
    /\ UNCHANGED graphOthers

\* The update phase of the worker superstep; the edges of the three workers
\* schedule the aggregator for the next superstep.
CommitWorkers ==
    /\ pc = "workers" /\ Len(writes) = Len(sends)
    /\ state' = ApplyAll(state, writes)
    /\ stage_log' = [stage_log EXCEPT
                       !.dec = Cardinality({i \in 1..Len(writes) :
                                              /\ "waiting" \in DOMAIN writes[i]
                                              /\ writes[i].waiting = -1})]
    /\ sends' = <<>>
    /\ writes' = <<>>
    /\ pc' = "aggregate_normalize_optional"
    /\ UNCHANGED <<turn, approval_emitted, kg_tool>>
    /\ UNCHANGED graphOthers

\* aggregate_normalize_optional, the update phase and _route_from_agg.  On
\* "more" stage_index advances and the stage it now points at is read for the
\* first time.
Aggregate ==
    /\ pc = "aggregate_normalize_optional"
    /\ LET upd == aggregate_normalize_optional(state)
           s1 == ApplyWrites(state, upd)
       IN /\ IF upd.agg_route = "more"
             THEN \E g \in StageSet : state' = [s1 EXCEPT !.plan.stage = g]
             ELSE state' = s1
          /\ pc' = route_from_agg(s1)
    /\ stage_log' = NoStage
    /\ UNCHANGED <<turn, sends, writes, approval_emitted, kg_tool>>
    /\ UNCHANGED graphOthers

\* response_writer, then END.
ResponseWriter ==
    /\ pc = "response_writer"
    /\ pc' = "idle"
    /\ UNCHANGED <<turn, state, sends, writes, stage_log, approval_emitted, kg_tool>>
    /\ UNCHANGED graphOthers

GraphNext ==
    \/ StartTurn
    \/ DetectIntent
    \/ CollectBase
    \/ SimpleResponse
    \/ Planner
    \/ SetBarrier
    \/ Orchestrator
    \/ RunSQL
    \/ RunKG
    \/ RunVector
    \/ CommitWorkers
    \/ Aggregate
    \/ ResponseWriter


\* Values of the specifications a variable group is idle in.
ReducerIdle == red = <<PyNone, PyNone>> /\ red_out = <<>>
LockIdle == wl_pc = <<>> /\ wl_call = <<>> /\ wl_locks = <<>>
StreamIdle ==
    /\ threads = <<>> /\ messages = {} /\ req = [pc |-> "none"]
    /\ events = <<>> /\ graph_runs = {}
    /\ last = <<>>
ConnIdle == now = 0 /\ conn = <<>> /\ conn_lock = 0 /\ callers = <<>>
AputIdle == ap = <<>>
JsonIdle == js = <<>>
PlanIdle == pl = <<>>
QueueIdle == event_queue = <<>> /\ consumed = 0 /\ producer = "off" /\ consumer = "off" /\ run = <<>>
ChunkIdle == cb = <<>> /\ pushed = <<>>
VectorIdle == vec = <<>> /\ vnode = "off" /\ vtrail = <<>>
SqlIdle == sq = <<>>
RegistryIdle == STREAM_CALLBACKS = <<>> /\ runs = <<>> /\ sse_queues = <<>>
GraphIdle ==
    /\ pc = "off" /\ turn = 0 /\ state = InitState /\ sends = <<>> /\ writes = <<>>
    /\ stage_log = NoStage /\ approval_emitted = FALSE /\ kg_tool = "none"

\* The graph on one thread, turn after turn.
Init ==
    /\ GraphInit /\ ReducerIdle /\ LockIdle /\ StreamIdle /\ ConnIdle
    /\ ChunkIdle /\ VectorIdle /\ SqlIdle /\ RegistryIdle /\ AputIdle
    /\ JsonIdle /\ PlanIdle /\ QueueIdle
Next == GraphNext
Spec == Init /\ [][Next]_vars

\* --------------------------------------------- the list reducer on its own
\* Length of the lists the reducer is applied to.
MaxLen == 2
Items == {"a", "b"}
\* current: None or a list; update: None, a list, or a value of another type.
CurrentValues == {PyNone} \cup {PyList(q) : q \in SeqsUpTo(Items, MaxLen)}
UpdateValues == {PyNone, PyOther} \cup {PyList(q) : q \in SeqsUpTo(Items, MaxLen)}

ReducerInit ==
    /\ red \in CurrentValues \X UpdateValues
    /\ red_out = [done |-> FALSE, v |-> <<>>]
    /\ GraphIdle /\ LockIdle /\ StreamIdle /\ ConnIdle /\ AputIdle /\ JsonIdle
    /\ ChunkIdle /\ VectorIdle /\ SqlIdle /\ RegistryIdle /\ PlanIdle
    /\ QueueIdle

\* One application of the reducer to the inputs drawn.
Reduce ==
    /\ ~red_out.done
    /\ red_out' = [done |-> TRUE, v |-> clearable_list_reducer_v2(red[1], red[2])]
    /\ UNCHANGED red
    /\ UNCHANGED reducerOthers

\* The channel keeps the result as its value; the next task writes update u.
NextUpdate ==
    /\ red_out.done
    /\ Len(red_out.v) <= MaxLen
    /\ \E u \in UpdateValues : red' = <<PyList(red_out.v), u>>
    /\ red_out' = [done |-> FALSE, v |-> <<>>]
    /\ UNCHANGED reducerOthers

ReducerNext ==
    \/ Reduce
    \/ NextUpdate

SpecReducer == ReducerInit /\ [][ReducerNext]_vars


\* ------------------------------------- the checkpointer's write locks
\* Concurrent callers of the checkpointer (tasks of the engine, on any thread).
NumWriters == 3
Writers == 1..NumWriters
LockThreads == {"t1", "t2"}
\* The task_id of the write call number w.
TaskIdOf(w) == <<"task1", "task2", "task3", "task4", "task5">>[w]

\* Python values passed to the checkpointer.
PyDict(d) == [py |-> "dict", d |-> d]
PyStr(x) == [py |-> "str", s |-> x]
PyListValue == [py |-> "list"]
PyNoneValue == [py |-> "none"]
ConfigOf(t) == PyDict([configurable |-> [thread_id |-> t]])
CheckpointValue == PyDict([v |-> 1])
MetadataValue == PyDict([source |-> "loop", step |-> 0])
NewVersionsValue == PyDict([messages |-> 1])

\* MinimalCheckpointerAdapter.aput: self.inner.aput(config_cleaned, checkpoint,
\* metadata[, new_versions_cleaned]), all positional.
AdapterAputCalls(t) ==
    {[op |-> "aput", thread_id |-> t, kwargs |-> <<>>,
      args |-> <<ConfigOf(t), CheckpointValue, MetadataValue, NewVersionsValue>>],
     [op |-> "aput", thread_id |-> t, kwargs |-> <<>>,
      args |-> <<ConfigOf(t), CheckpointValue, MetadataValue>>]}

\* aput_writes as the engine issues it, (config, writes, task_id), and as
\* MinimalCheckpointerAdapter.aput_writes forwards it, (config, norm_writes,
\* task_id, task_path); all positional.
AputWritesCalls(t, w) ==
    {[op |-> "aput_writes", thread_id |-> t, kwargs |-> <<>>,
      args |-> <<ConfigOf(t), PyListValue, PyStr(TaskIdOf(w))>>],
     [op |-> "aput_writes", thread_id |-> t, kwargs |-> <<>>,
      args |-> <<ConfigOf(t), PyListValue, PyStr(TaskIdOf(w)), PyStr("")>>]}

NoCall == [op |-> "none"]

\* A key taken from the third positional argument whatever it is: the
\* task_id of aput_writes when that is what the argument holds.
_extract_thread_id_third_argument(args, kwargs) ==
    IF Len(args) >= 3 /\ args[3].py = "str" THEN args[3].s ELSE "default"

\* AutoReconnectCheckpointer._extract_thread_id(*args, **kwargs); args[2] of
\* the code is args[3] here.
_extract_thread_id(args, kwargs) ==
    LET positional == IF Len(args) >= 3 THEN args[3]
                      ELSE IF Len(args) >= 4 THEN args[4]
                      ELSE PyNoneValue
        config == IF positional.py = "none"
                  THEN (IF "config" \in DOMAIN kwargs THEN kwargs.config ELSE PyNoneValue)
                  ELSE positional
    IN IF config.py = "dict"
       THEN LET configurable == IF "configurable" \in DOMAIN config.d
                                THEN config.d.configurable ELSE <<>>
            IN IF "thread_id" \in DOMAIN configurable /\ configurable.thread_id # ""
               THEN configurable.thread_id
               ELSE "default"
       ELSE "default"

\* The key of _write_locks the call of writer w takes.
LockKey(w) == _extract_thread_id(wl_call[w].args, wl_call[w].kwargs)

\* asyncio.Lock.locked() of self._write_locks[k]
Locked(k) == \E h \in Writers : <<k, h>> \in wl_locks

LockInit ==
    /\ wl_pc = [w \in Writers |-> "idle"]
    /\ wl_call = [w \in Writers |-> NoCall]
    /\ wl_locks = {}
    /\ GraphIdle /\ ReducerIdle /\ StreamIdle /\ ConnIdle /\ AputIdle
    /\ ChunkIdle /\ VectorIdle /\ SqlIdle /\ RegistryIdle /\ JsonIdle
    /\ PlanIdle /\ QueueIdle

\* The adapter calls aput of the AutoReconnectCheckpointer.
AdapterAput(w) ==
    /\ wl_pc[w] = "idle"
    /\ \E t \in LockThreads : \E c \in AdapterAputCalls(t) :
          wl_call' = [wl_call EXCEPT ![w] = c]
    /\ wl_pc' = [wl_pc EXCEPT ![w] = "acquire"]
    /\ UNCHANGED wl_locks
    /\ UNCHANGED lockOthers

\* aput_writes of the AutoReconnectCheckpointer is called for a task's writes.
EngineAputWrites(w) ==
    /\ wl_pc[w] = "idle"
    /\ \E t \in LockThreads : \E c \in AputWritesCalls(t, w) :
          wl_call' = [wl_call EXCEPT ![w] = c]
    /\ wl_pc' = [wl_pc EXCEPT ![w] = "acquire"]
    /\ UNCHANGED wl_locks
    /\ UNCHANGED lockOthers

\* async with write_lock: entered when the lock is free; inside it
\* _ensure_saver and _with_retry call the underlying saver.
Acquire(w) ==
    /\ wl_pc[w] = "acquire"
    /\ ~Locked(LockKey(w))
    /\ wl_locks' = wl_locks \cup {<<LockKey(w), w>>}
    /\ wl_pc' = [wl_pc EXCEPT ![w] = "saver"]
    /\ UNCHANGED wl_call
    /\ UNCHANGED lockOthers

\* The block of async with is left, by return or by exception.
Release(w) ==
    /\ wl_pc[w] = "saver"
    /\ wl_locks' = wl_locks \ {<<LockKey(w), w>>}
    /\ wl_pc' = [wl_pc EXCEPT ![w] = "idle"]
    /\ wl_call' = [wl_call EXCEPT ![w] = NoCall]
    /\ UNCHANGED lockOthers

LockNext ==
    \E w \in Writers :
        \/ AdapterAput(w)
        \/ EngineAputWrites(w)
        \/ Acquire(w)
        \/ Release(w)

SpecCkpt == LockInit /\ [][LockNext]_vars


\* ------------------------------------------- the thread endpoints
\* request.state.user_id: the JWT sub, or None without a valid token.
Users == {"u1", "u2"}
Requesters == Users \cup {None}
ThreadIds == {"t1", "t2"}
\* No row of threads has the id.
Absent == "absent"

\* threads_pg.ensure_thread: insert, on conflict
\* user_id = coalesce(threads.user_id, excluded.user_id).
ensure_thread(th, t, u) ==
    [th EXCEPT ![t] = IF @ = Absent \/ @ = None THEN u ELSE @]

\* threads_pg.get_thread_owner: None without a row, else the row's user_id.
get_thread_owner(th, t) == IF th[t] = Absent THEN None ELSE th[t]

\* threads_pg.delete_thread: delete ... where id = t and user_id = u (never
\* true for u NULL).
delete_thread(th, t, u) ==
    IF u # None /\ th[t] = u THEN [th EXCEPT ![t] = Absent] ELSE th

\* A row of thread_messages: <<thread_id, role, user_id, content type>>.
\* threads_pg.insert_message: the thread is upserted as by ensure_thread, then
\* the row is inserted.
insert_message(msgs, t, role, u, type) == msgs \cup {<<t, role, u, type>>}

\* threads_pg.load_messages: the rows of thread t joined with threads on
\* t.user_id = u (never true for u NULL); the result is always a list.
load_messages(th, msgs, t, u) ==
    [py |-> "list",
     rows |-> {m \in msgs : m[1] = t /\ u # None /\ th[t] = u}]

\* A response: the HTTP status and what it carries.
Response(status, body) == [status |-> status, body |-> body]

\* server.get_thread_messages: 404 when load_messages returns None, 500 when
\* it raises, else the rows.
get_thread_messages(th, msgs, t, u, db_ok) ==
    IF ~db_ok THEN Response("500", {})
    ELSE LET rows == load_messages(th, msgs, t, u)
         IN IF rows.py = "none" THEN Response("404", {})
            ELSE Response("200", rows.rows)

\* An ownership check that lets the request through when the store raises.
owner_refused_unless_store_raises(th, t, u, db_ok) ==
    db_ok /\ (get_thread_owner(th, t) = None \/ get_thread_owner(th, t) # u)

\* generate_stream and approve_tool: the ownership check refuses the request
\* (owner is None or owner != req_uid, or the store raises).
owner_refused(th, t, u, db_ok) ==
    ~db_ok \/ get_thread_owner(th, t) = None \/ get_thread_owner(th, t) # u

\* Request bodies of the approval endpoint: valid JSON or not, toolName
\* missing, a name of TOOL_BY_NAME or another name, bool(body.approve).
ApprovalBodies ==
    [json_ok : BOOLEAN, toolName : {"missing", "known", "unknown"}, approve : BOOLEAN]

\* What the calls made by approve_tool do: the owner lookup and the two
\* insert_message calls succeed or raise, the tool returns or raises.
ApprovalOutcomes ==
    [owner_ok : BOOLEAN, decision_ok : BOOLEAN, tool_raises : BOOLEAN, result_ok : BOOLEAN]

\* The requests and outcomes that differ in something approve_tool reaches:
\* what a call does is drawn only where the body lets the handler get to it.
ApprovalCases ==
    {c \in ApprovalBodies \X ApprovalOutcomes :
        LET b == c[1]
            o == c[2]
            decides == b.json_ok /\ o.owner_ok /\ b.toolName # "missing"
            invokes == decides /\ b.approve /\ b.toolName = "known"
        IN /\ (~b.json_ok => (b.toolName = "known" /\ b.approve /\ o.owner_ok))
           /\ (~decides => o.decision_ok)
           /\ (~invokes => ~o.tool_raises)
           /\ (~(invokes /\ ~o.tool_raises) => o.result_ok)}

\* server.approve_tool for body b under outcomes o: the response, the store
\* after it, and log, what was done in order ("decision": the approval_result
\* row is written, "tool": tool.ainvoke is called, "tool_result": the
\* tool_result row is written).
approve_tool(th, msgs, t, u, b, o) ==
    LET answer(status, m, log) ==
            [response |-> Response(status, {}), messages |-> m, log |-> log]
        msgs1 == IF o.decision_ok
                 THEN insert_message(msgs, t, "assistant", u, "approval_result")
                 ELSE msgs
        log1 == IF o.decision_ok THEN <<"decision">> ELSE <<>>
        msgs2 == IF o.result_ok
                 THEN insert_message(msgs1, t, "assistant", u, "tool_result")
                 ELSE msgs1
        log2 == IF o.result_ok THEN log1 \o <<"tool", "tool_result">>
                ELSE log1 \o <<"tool">>
    IN IF ~b.json_ok THEN answer("400", msgs, <<>>)
       ELSE IF owner_refused(th, t, u, o.owner_ok) THEN answer("404", msgs, <<>>)
       ELSE IF b.toolName = "missing" THEN answer("400", msgs, <<>>)
       ELSE IF ~b.approve THEN answer("200", msgs1, log1)
       ELSE IF b.toolName = "unknown" THEN answer("400", msgs1, log1)
       ELSE IF o.tool_raises THEN answer("500", msgs1, log1 \o <<"tool">>)
       ELSE answer("200", msgs2, log2)

\* What the calls made by generate_stream do.
StreamOutcomes ==
    [ensure_ok : BOOLEAN, owner_ok : BOOLEAN, has_messages : BOOLEAN, run_ok : BOOLEAN]

\* The ACK and the terminal event of one whole stream request on store th
\* under outcomes o, as the steps StreamStart to StreamRun below produce them
\* (what a started run puts between the two is the subject of SpecQueue).
generate_stream(th, t, u, o) ==
    LET th1 == IF o.ensure_ok THEN ensure_thread(th, t, u) ELSE th
    IN IF owner_refused(th1, t, u, o.owner_ok) THEN <<"message", "error">>
       ELSE IF ~o.has_messages THEN <<"message", "error">>
       ELSE <<"message", IF o.run_ok THEN "complete" ELSE "error">>

StreamInit ==
    /\ threads = [t \in ThreadIds |-> Absent]
    /\ messages = {}
    /\ req = [pc |-> "none"]
    /\ events = <<>>
    /\ graph_runs = {}
    /\ last = [endpoint |-> "none"]
    /\ GraphIdle /\ ReducerIdle /\ LockIdle /\ ConnIdle /\ AputIdle
    /\ ChunkIdle /\ VectorIdle /\ SqlIdle /\ RegistryIdle /\ JsonIdle
    /\ PlanIdle /\ QueueIdle

\* No stream request is between its ACK and its end.
NoRequest == req.pc \in {"none", "done"}

\* POST /api/threads (server.create_thread): 401 without a user; the new id is
\* unused; a failure of ensure_thread is swallowed.
CreateThread ==
    /\ NoRequest
    /\ \E t \in ThreadIds, u \in Users, db_ok \in BOOLEAN :
          /\ threads[t] = Absent
          /\ threads' = IF db_ok THEN ensure_thread(threads, t, u) ELSE threads
    /\ UNCHANGED <<messages, req, events, graph_runs, last>>
    /\ UNCHANGED streamOthers

\* server.delete_thread answers 200 unless the store raises, then 404.
delete_thread_response(db_ok) == Response(IF db_ok THEN "200" ELSE "404", {})

\* DELETE /api/threads/{thread_id}; the messages of a deleted thread go with it.
DeleteThread ==
    /\ NoRequest
    /\ \E t \in ThreadIds, u \in Requesters, db_ok \in BOOLEAN :
          /\ threads' = IF db_ok THEN delete_thread(threads, t, u) ELSE threads
          /\ messages' = IF threads'[t] = Absent
                         THEN {m \in messages : m[1] # t} ELSE messages
    /\ UNCHANGED <<req, events, graph_runs, last>>
    /\ UNCHANGED streamOthers

\* GET /api/threads/{thread_id}/messages (server.get_thread_messages).
GetMessages ==
    /\ NoRequest
    /\ \E t \in ThreadIds, u \in Requesters, db_ok \in BOOLEAN :
          LET r == get_thread_messages(threads, messages, t, u, db_ok)
          IN /\ last' = [endpoint |-> "messages", t |-> t, u |-> u,
                         owner0 |-> threads[t], db_ok |-> db_ok, response |-> r]
    /\ UNCHANGED <<threads, messages, req, events, graph_runs>>
    /\ UNCHANGED streamOthers

\* POST /api/threads/{t}/runs/stream by u: generate_stream yields the initial
\* "message" event.  owner0 records the stored owner when the request arrives.
StreamStart ==
    /\ NoRequest
    /\ \E t \in ThreadIds, u \in Requesters :
          req' = [pc |-> "ensure", t |-> t, u |-> u, owner0 |-> threads[t]]
    /\ events' = <<"message">>
    /\ UNCHANGED <<threads, messages, graph_runs, last>>
    /\ UNCHANGED streamOthers

\* generate_stream: await ensure_thread(thread_id, user_id), its exception
\* swallowed.
StreamEnsure ==
    /\ req.pc = "ensure"
    /\ \E db_ok \in BOOLEAN :
          threads' = IF db_ok THEN ensure_thread(threads, req.t, req.u) ELSE threads
    /\ req' = [req EXCEPT !.pc = "check"]
    /\ UNCHANGED <<messages, events, graph_runs, last>>
    /\ UNCHANGED streamOthers

\* generate_stream: owner = await get_thread_owner(thread_id);
\* owner is None or owner != req_uid, or an exception: error event and return.
StreamCheck ==
    /\ req.pc = "check"
    /\ \E db_ok \in BOOLEAN :
          IF owner_refused(threads, req.t, req.u, db_ok)
          THEN /\ events' = Append(events, "error")
               /\ req' = [req EXCEPT !.pc = "done"]
          ELSE /\ events' = events
               /\ req' = [req EXCEPT !.pc = "run"]
    /\ UNCHANGED <<threads, messages, graph_runs, last>>
    /\ UNCHANGED streamOthers

\* generate_stream after the check: 400 without messages; the last user message
\* is persisted by insert_message (its failure is swallowed); the graph runs on
\* the thread; the stream ends with "complete", or with "error" when the run
\* fails.
StreamRun ==
    /\ req.pc = "run"
    /\ \E has_messages \in BOOLEAN, db_ok \in BOOLEAN, run_ok \in BOOLEAN :
          /\ IF ~has_messages
             THEN /\ events' = Append(events, "error")
                  /\ UNCHANGED <<threads, messages, graph_runs>>
             ELSE /\ threads' = IF db_ok THEN ensure_thread(threads, req.t, req.u)
                                ELSE threads
                  /\ messages' = IF db_ok
                                 THEN insert_message(messages, req.t, "user", req.u, "text")
                                 ELSE messages
                  /\ graph_runs' = graph_runs \cup {<<req.t, req.u>>}
                  /\ events' = Append(events, IF run_ok THEN "complete" ELSE "error")
          /\ req' = [req EXCEPT !.pc = "done"]
    /\ UNCHANGED last
    /\ UNCHANGED streamOthers

StreamNext ==
    \/ CreateThread
    \/ DeleteThread
    \/ StreamStart
    \/ StreamEnsure
    \/ StreamCheck
    \/ StreamRun

SpecStream == StreamInit /\ [][StreamNext]_vars

\* POST /api/threads/{thread_id}/tools/approval (server.approve_tool).
ApproveTool ==
    /\ NoRequest
    /\ \E t \in ThreadIds, u \in Requesters, c \in ApprovalCases :
          LET a == approve_tool(threads, messages, t, u, c[1], c[2])
          IN /\ messages' = a.messages
             /\ last' = [endpoint |-> "approval", t |-> t, u |-> u,
                         owner0 |-> threads[t], body |-> c[1], outcome |-> c[2],
                         response |-> a.response, log |-> a.log]
    /\ UNCHANGED <<threads, req, events, graph_runs>>
    /\ UNCHANGED streamOthers

\* The endpoints that answer at once, on the store of threads.
ThreadsNext ==
    \/ CreateThread
    \/ DeleteThread
    \/ GetMessages
    \/ ApproveTool

SpecThreads == StreamInit /\ [][ThreadsNext]_vars


\* ------------------------------- the checkpointer's connection management
\* AutoReconnectCheckpointer as the program constructs it (no initial_saver):
\* _saver starts as None and every connection is made by _connect.  Time is
\* counted in ticks of the clock.  A tick passes only while every coroutine
\* is waiting for something that takes time: an operation in flight, a
\* connection being closed or opened, self._lock while another coroutine
\* holds it.  A coroutine that the event loop can resume (the lock it waits
\* for is free) runs before the clock moves, and setup() finishes within the
\* tick in which the connection was opened.  The per-thread write lock of
\* aput and aput_writes is taken before _ensure_saver and released after
\* _with_retry; it only delays a writer before the steps below and is the
\* subject of SpecCkpt.
NumCallers == 2
MaxTime == 4
connection_max_age == 2
max_retry == 1

Callers == 1..NumCallers
Methods == {"aput", "aput_writes", "aget", "aget_tuple", "alist"}
Needles == {"the connection is closed", "ssl syscall error", "eof detected",
            "connection reset", "bad length", "server closed the connection"}
\* an exception, by its text and the needles its lower-cased text contains
Errors ==
    { [text |-> "SSL SYSCALL error: EOF detected",
       needles |-> {"ssl syscall error", "eof detected"}],
      [text |-> "duplicate key value violates unique constraint", needles |-> {}] }
ConnectRefused == [text |-> "connection refused", needles |-> {}]
AttributeError == [text |-> "'NoneType' object has no attribute", needles |-> {}]
NoError == [text |-> "", needles |-> {}]

_is_connection_error_on_any(e) == e # NoError
_is_connection_error(e) == e.needles \cap Needles # {}

connection_expired_after_grace(created_at, t) == t - created_at > connection_max_age + 1
connection_expired(created_at, t) == t - created_at > connection_max_age

NoConnection == [saver |-> FALSE, created_at |-> -1, setup_done |-> FALSE]
IdleCaller ==
    [pc |-> "idle", method |-> "none", mode |-> "ensure", attempt |-> 0,
     issues |-> 0, reconnects |-> 0, recycled |-> FALSE, issue_age |-> -1,
     errors |-> <<>>, raised |-> NoError, closed_under |-> FALSE]

\* the body of _with_retry's try: getattr(self._saver, name) and the call,
\* taken with no suspension after the step that precedes it
Issue(c, cn, t) ==
    IF cn.saver
    THEN [c EXCEPT !.pc = "inflight", !.issues = @ + 1,
                   !.issue_age = t - cn.created_at, !.closed_under = FALSE]
    ELSE [c EXCEPT !.pc = "failed", !.errors = Append(@, AttributeError),
                   !.raised = AttributeError]

ConnInit ==
    /\ now = 0
    /\ conn = NoConnection
    /\ conn_lock = 0
    /\ callers = [p \in Callers |-> IdleCaller]
    /\ GraphIdle /\ ReducerIdle /\ LockIdle /\ StreamIdle /\ AputIdle
    /\ ChunkIdle /\ VectorIdle /\ SqlIdle /\ RegistryIdle /\ JsonIdle
    /\ PlanIdle /\ QueueIdle

Runnable(p) ==
    callers[p].pc \in {"age_lock", "first_lock", "retry_lock"} /\ conn_lock = 0

Tick ==
    /\ now < MaxTime
    /\ \A p \in Callers : ~Runnable(p)
    /\ now' = now + 1
    /\ UNCHANGED <<conn, conn_lock, callers>>
    /\ UNCHANGED connOthers

\* aput / aput_writes / aget / aget_tuple / alist up to the first suspension:
\* _ensure_saver's tests and, when the connection is young enough, the call
CallMethod(p) ==
    /\ callers[p].pc \in {"idle", "done", "failed"}
    /\ \E m \in Methods :
        LET c == [IdleCaller EXCEPT !.method = m] IN
        callers' = [callers EXCEPT ![p] =
            IF conn.saver /\ conn.created_at # -1
            THEN IF connection_expired(conn.created_at, now)
                 THEN [c EXCEPT !.pc = "age_lock"]
                 ELSE Issue(c, conn, now)
            ELSE IF ~conn.saver
                 THEN [c EXCEPT !.pc = "first_lock"]
                 ELSE Issue(c, conn, now)]
    /\ UNCHANGED <<now, conn, conn_lock>>
    /\ UNCHANGED connOthers

\* _ensure_saver, lines 78-84: the lock is taken and the age tested again
EnsureRecheck(p) ==
    /\ callers[p].pc = "age_lock"
    /\ conn_lock = 0
    /\ IF conn.saver /\ conn.created_at # -1
          /\ connection_expired(conn.created_at, now)
       THEN /\ conn_lock' = p
            /\ callers' = [callers EXCEPT ![p].pc = "closing",
                                          ![p].recycled = TRUE]
       ELSE /\ conn_lock' = 0
            /\ callers' = [callers EXCEPT ![p] = Issue(@, conn, now)]
    /\ UNCHANGED <<now, conn>>
    /\ UNCHANGED connOthers

\* _ensure_saver, lines 87-90: the first connection
EnsureFirst(p) ==
    /\ callers[p].pc = "first_lock"
    /\ conn_lock = 0
    /\ IF ~conn.saver
       THEN /\ conn_lock' = p
            /\ callers' = [callers EXCEPT ![p].pc = "connecting"]
       ELSE /\ conn_lock' = 0
            /\ callers' = [callers EXCEPT ![p] = Issue(@, conn, now)]
    /\ UNCHANGED <<now, conn>>
    /\ UNCHANGED connOthers

\* _reconnect_locked up to _connect: the old connection is closed
\* (an exception of __aexit__ is swallowed) and _saver becomes None.  An
\* operation of another caller that is in flight on the connection closed
\* is marked closed_under.
CloseOld(p) ==
    /\ callers[p].pc = "closing"
    /\ conn_lock = p
    /\ conn' = [conn EXCEPT !.saver = FALSE]
    /\ callers' = [q \in Callers |->
                     IF q = p THEN [callers[q] EXCEPT !.pc = "connecting"]
                     ELSE IF conn.saver /\ callers[q].pc = "inflight"
                          THEN [callers[q] EXCEPT !.closed_under = TRUE]
                     ELSE callers[q]]
    /\ UNCHANGED <<now, conn_lock>>
    /\ UNCHANGED connOthers

\* _connect, then the release of self._lock and what follows it with no
\* suspension: the return of _ensure_saver and the call, or attempt += 1 and
\* the next turn of _with_retry's loop
Connect(p) ==
    /\ callers[p].pc = "connecting"
    /\ conn_lock = p
    /\ conn_lock' = 0
    /\ \E opened \in BOOLEAN, setup_ok \in BOOLEAN :
        IF opened
        THEN LET cn == [saver |-> TRUE, created_at |-> now,
                        setup_done |-> conn.setup_done \/ setup_ok]
                 c == callers[p]
                 c1 == IF c.mode = "retry"
                       THEN [c EXCEPT !.attempt = @ + 1, !.reconnects = @ + 1]
                       ELSE c
             IN /\ conn' = cn
                /\ callers' = [callers EXCEPT ![p] = Issue(c1, cn, now)]
        ELSE /\ setup_ok
             /\ UNCHANGED conn
             /\ callers' = [callers EXCEPT ![p].pc = "failed",
                                           ![p].raised = ConnectRefused]
    /\ UNCHANGED now
    /\ UNCHANGED connOthers

\* the operation returns
Succeed(p) ==
    /\ callers[p].pc = "inflight"
    /\ callers' = [callers EXCEPT ![p].pc = "done"]
    /\ UNCHANGED <<now, conn, conn_lock>>
    /\ UNCHANGED connOthers

\* the operation raises: _with_retry's except clause
Fail(p) ==
    /\ callers[p].pc = "inflight"
    /\ \E e \in Errors :
        LET c == [callers[p] EXCEPT !.errors = Append(@, e)] IN
        callers' = [callers EXCEPT ![p] =
            IF ~_is_connection_error(e) \/ c.attempt >= max_retry
            THEN [c EXCEPT !.pc = "failed", !.raised = e]
            ELSE [c EXCEPT !.pc = "retry_lock", !.mode = "retry"]]
    /\ UNCHANGED <<now, conn, conn_lock>>
    /\ UNCHANGED connOthers

\* _with_retry, line 169: self._lock is taken for the reconnect
RetryLock(p) ==
    /\ callers[p].pc = "retry_lock"
    /\ conn_lock = 0
    /\ conn_lock' = p
    /\ callers' = [callers EXCEPT ![p].pc = "closing"]
    /\ UNCHANGED <<now, conn>>
    /\ UNCHANGED connOthers

ConnNext ==
    \/ Tick
    \/ \E p \in Callers : CallMethod(p)
    \/ \E p \in Callers : EnsureRecheck(p)
    \/ \E p \in Callers : EnsureFirst(p)
    \/ \E p \in Callers : CloseOld(p)
    \/ \E p \in Callers : Connect(p)
    \/ \E p \in Callers : Succeed(p)
    \/ \E p \in Callers : Fail(p)
    \/ \E p \in Callers : RetryLock(p)

SpecConn == ConnInit /\ [][ConnNext]_vars

\* ------------------------------------ the adapter's aput and its fallback
\* MinimalCheckpointerAdapter.aput for one checkpoint.  The metadata the
\* engine passes is None, a mapping or (never seen from the engine, but
\* accepted by the code) something else; the value under key k is written k.
dangerous_keys == {"writes", "tasks", "pending_writes", "commands", "task_path"}
allow_keys == {"source", "step", "parents"}
MetadataKeySets ==
    { {}, {"source"}, {"source", "step"}, {"source", "step", "parents"},
      {"source", "step", "writes"}, {"source", "step", "parents", "thread_id"},
      {"thread_id", "writes"} }
MetadataInputs ==
    {PyNoneValue, PyStr("loop")} \cup {PyDict([k \in K |-> k]) : K \in MetadataKeySets}
InnerOutcomes == {"ok", "raise"}

\* lines 350-373: the dangerous keys are popped and the values made JSON-able
\* (a string is its own JSON form); when that raises, metadata becomes {}
clean_metadata(md, cleaning_raises) ==
    IF md.py = "none" THEN md
    ELSE IF cleaning_raises THEN PyDict(<<>>)
    ELSE IF md.py = "dict"
         THEN PyDict([k \in DOMAIN md.d \ dangerous_keys |-> md.d[k]])
         ELSE md

fallback_metadata_keeping_all(md) == IF md.py = "dict" THEN md ELSE PyNoneValue
\* lines 375-384
fallback_metadata(md) ==
    IF md.py = "dict"
    THEN PyDict([k \in DOMAIN md.d \cap allow_keys |-> md.d[k]])
    ELSE PyNoneValue

\* line 460
fm(md) ==
    IF fallback_metadata(md) # PyNoneValue THEN fallback_metadata(md) ELSE PyDict(<<>>)

\* self.inner.aput(config_cleaned, checkpoint, metadata[, new_versions_cleaned])
InnerAput(md, has_new_versions) ==
    [metadata |-> md, nargs |-> IF has_new_versions THEN 4 ELSE 3]

AputInit ==
    /\ ap = [pc |-> "idle"]
    /\ GraphIdle /\ ReducerIdle /\ LockIdle /\ StreamIdle /\ ConnIdle
    /\ ChunkIdle /\ VectorIdle /\ SqlIdle /\ RegistryIdle /\ JsonIdle
    /\ PlanIdle /\ QueueIdle

\* aput up to its first await: the arguments are prepared (an exception of
\* the channel values' conversion leaves through the outer except) and the
\* first inner call is made
AputCall ==
    /\ ap.pc \in {"idle", "returned", "raised"}
    /\ \E md \in MetadataInputs, has_new_versions \in BOOLEAN,
          prepare_raises \in BOOLEAN, cleaning_raises \in BOOLEAN :
        /\ prepare_raises => ~cleaning_raises
        /\ cleaning_raises => md.py # "none"
        /\ ap' = IF prepare_raises
                 THEN [pc |-> "raised", input |-> md, metadata |-> md,
                       has_new_versions |-> has_new_versions,
                       calls |-> <<>>, outcomes |-> <<>>]
                 ELSE LET m == clean_metadata(md, cleaning_raises) IN
                      [pc |-> "first", input |-> md, metadata |-> m,
                       has_new_versions |-> has_new_versions,
                       calls |-> <<InnerAput(m, has_new_versions)>>,
                       outcomes |-> <<>>]
    /\ UNCHANGED aputOthers

\* the first inner call ends: its result is returned, or the except clause
\* of lines 457-464 makes the second call
AputFirstEnds ==
    /\ ap.pc = "first"
    /\ \E o \in InnerOutcomes :
        ap' = IF o = "ok"
              THEN [ap EXCEPT !.pc = "returned", !.outcomes = Append(@, o)]
              ELSE [ap EXCEPT !.pc = "second", !.outcomes = Append(@, o),
                              !.calls = Append(@, InnerAput(fm(ap.metadata),
                                                            ap.has_new_versions))]
    /\ UNCHANGED aputOthers

\* the second inner call ends: its result is returned, or its exception
\* leaves through the outer except, which prints and raises
AputSecondEnds ==
    /\ ap.pc = "second"
    /\ \E o \in InnerOutcomes :
        ap' = [ap EXCEPT !.pc = IF o = "ok" THEN "returned" ELSE "raised",
                         !.outcomes = Append(@, o)]
    /\ UNCHANGED aputOthers

AputNext == AputCall \/ AputFirstEnds \/ AputSecondEnds

SpecAput == AputInit /\ [][AputNext]_vars

\* ------------------------------- the adapter's JSON form and its inverse
\* Python values are records tagged by kind; a JSON object is a value of
\* kind "dict" whose keys are strings.
JsonMaxItems == 2

Str(x) == [k |-> "str", v |-> x]
NoneValue == [k |-> "none"]
Datetime(x) == [k |-> "datetime", v |-> x]
Uuid(x) == [k |-> "uuid", v |-> x]
Message(type, content) == [k |-> "message", type |-> type, content |-> content]
List(items) == [k |-> "list", items |-> items]
Tuple(items) == [k |-> "tuple", items |-> items]
Dict(d) == [k |-> "dict", d |-> d]
Send(node, arg) == [k |-> "Send", node |-> node, arg |-> arg]

\* datetime.isoformat / datetime.fromisoformat and str(UUID) / UUID(str)
Datetimes == {"dt1", "dt2"}
Uuids == {"u1"}
isoformat(x) == IF x = "dt1" THEN "2024-01-01T00:00:00" ELSE "2024-06-30T12:00:00+00:00"
IsIso(x) == \E d \in Datetimes : isoformat(d) = x
fromisoformat(x) == CHOOSE d \in Datetimes : isoformat(d) = x
uuid_str(x) == "123e4567-e89b-12d3-a456-426614174000"
IsUuidStr(x) == \E u \in Uuids : uuid_str(u) = x
uuid_of(x) == CHOOSE u \in Uuids : uuid_str(u) = x

\* langchain's messages_to_dict / messages_from_dict
message_to_dict(m) ==
    Dict([type |-> Str(m.type), data |-> Dict([content |-> Str(m.content)])])
messages_to_dict(items) == [i \in DOMAIN items |-> message_to_dict(items[i])]
messages_from_dict(items) ==
    [i \in DOMAIN items |-> Message(items[i].d.type.v, items[i].d.data.d.content.v)]

RECURSIVE _to_jsonable(_)
_to_jsonable(obj) ==
    IF obj.k = "message"
    THEN Dict([__type__ |-> Str("lc_message_list"),
               data |-> List(messages_to_dict(<<obj>>))])
    ELSE IF obj.k = "Send"
    THEN Dict([__type__ |-> Str("Send"), node |-> Str(obj.node),
               arg |-> _to_jsonable(obj.arg)])
    ELSE IF obj.k = "list"
    THEN IF Len(obj.items) = 0
            \/ (obj.items[1].k = "message"
                /\ \A i \in DOMAIN obj.items : obj.items[i].k = "message")
         THEN Dict([__type__ |-> Str("lc_message_list"),
                    data |-> List(messages_to_dict(obj.items))])
         ELSE List([i \in DOMAIN obj.items |-> _to_jsonable(obj.items[i])])
    ELSE IF obj.k = "dict"
    THEN Dict([key \in DOMAIN obj.d |-> _to_jsonable(obj.d[key])])
    \* a tuple is a collections.abc.Sequence: line 175 takes it before line 180
    ELSE IF obj.k = "tuple"
    THEN List([i \in DOMAIN obj.items |-> _to_jsonable(obj.items[i])])
    ELSE IF obj.k \in {"str", "none"}
    THEN obj
    ELSE IF obj.k = "datetime"
    THEN Dict([__type__ |-> Str("datetime"), data |-> Str(isoformat(obj.v))])
    ELSE Dict([__type__ |-> Str("uuid"), data |-> Str(uuid_str(obj.v))])

RECURSIVE _from_jsonable(_)
_from_jsonable(obj) ==
    IF obj.k = "dict" /\ "__type__" \in DOMAIN obj.d
    THEN LET t == obj.d["__type__"].v IN
         IF t = "lc_message_list"
         THEN List(messages_from_dict(obj.d.data.items))
         ELSE IF t = "Send"
         THEN Send(obj.d.node.v, _from_jsonable(obj.d.arg))
         ELSE IF t = "tuple"
         THEN Tuple([i \in DOMAIN obj.d.data.items |->
                        _from_jsonable(obj.d.data.items[i])])
         ELSE IF t = "datetime"
         THEN IF IsIso(obj.d.data.v) THEN Datetime(fromisoformat(obj.d.data.v))
              ELSE Str(obj.d.data.v)
         ELSE IF t = "uuid"
         THEN IF IsUuidStr(obj.d.data.v) THEN Uuid(uuid_of(obj.d.data.v))
              ELSE Str(obj.d.data.v)
         ELSE _from_jsonable(obj.d.data)
    ELSE IF obj.k = "dict"
    THEN Dict([key \in DOMAIN obj.d |-> _from_jsonable(obj.d[key])])
    ELSE IF obj.k = "list"
    THEN List([i \in DOMAIN obj.items |-> _from_jsonable(obj.items[i])])
    ELSE obj

\* the values the engine puts into state, nested to depth two
SeqsOf(S) == UNION {[1..n -> S] : n \in 0..JsonMaxItems}
Atoms == {Str("a"), NoneValue} \cup {Datetime(x) : x \in Datetimes}
            \cup {Uuid(x) : x \in Uuids}
Messages == {Message("human", "hi"), Message("ai", "hello")}
MessageLists == {List(items) : items \in SeqsOf(Messages)}
Flat ==
    Atoms \cup MessageLists
    \cup {List(items) : items \in SeqsOf(Atoms)}
    \cup {Tuple(items) : items \in SeqsOf(Atoms)}
    \cup {Dict([key \in {"x"} |-> a]) : a \in Atoms}
    \cup {Send("sql_worker", Dict([query |-> a])) : a \in Atoms}
EngineValues ==
    Flat
    \cup {List(<<v>>) : v \in Flat}
    \cup {Tuple(<<v>>) : v \in Flat}
    \cup {Dict([messages |-> m, pending |-> v]) : m \in MessageLists, v \in Flat}
    \cup {Send("kg_worker", v) : v \in Flat}

JsonInit ==
    /\ js = [pc |-> "idle"]
    /\ GraphIdle /\ ReducerIdle /\ LockIdle /\ StreamIdle /\ ConnIdle
    /\ ChunkIdle /\ VectorIdle /\ SqlIdle /\ RegistryIdle /\ AputIdle
    /\ PlanIdle /\ QueueIdle

\* a value is written: aput stores _to_jsonable of it
JsonPut ==
    /\ js.pc \in {"idle", "read"}
    /\ \E v \in EngineValues :
        js' = [pc |-> "written", value |-> v, stored |-> _to_jsonable(v)]
    /\ UNCHANGED jsonOthers

\* the value is read back: aget_tuple returns _from_jsonable of what is stored
JsonGet ==
    /\ js.pc = "written"
    /\ js' = [pc |-> "read", value |-> js.value, stored |-> js.stored,
              loaded |-> _from_jsonable(js.stored)]
    /\ UNCHANGED jsonOthers

JsonNext == JsonPut \/ JsonGet

SpecJson == JsonInit /\ [][JsonNext]_vars

\* ---------------------------------------------------- plan_node on its own
PlanInit ==
    /\ pl = [pc |-> "idle"]
    /\ GraphIdle /\ ReducerIdle /\ LockIdle /\ StreamIdle /\ ConnIdle
    /\ ChunkIdle /\ VectorIdle /\ SqlIdle /\ RegistryIdle /\ AputIdle
    /\ QueueIdle /\ JsonIdle

\* the engine calls plan_node
PlanCall ==
    /\ \E o \in PlannerOutcomes, user_text \in UserTexts :
        LET r == plan_node(o, user_text) IN
        pl' = [pc |-> IF r.raises THEN "raised" ELSE "returned",
               llm |-> o, user_text |-> user_text, out |-> r.out]
    /\ UNCHANGED planOthers

PlanNext == PlanCall

SpecPlan == PlanInit /\ [][PlanNext]_vars

\* ------------------------------------- the stream's producer and consumer
\* generate_stream once the graph run is started: run_graph_and_finalize puts
\* SSE events and at last done_sentinel on the unbounded event_queue, the
\* consumer loop yields what it takes until it takes the sentinel.  An event
\* is written as its SSE event type.
MaxEvents == 2

CallbackEvents == {"partial_ai", "on_tool_end", "tool_result", "approval_required"}
Terminals == {"complete", "error"}
done_sentinel == "done_sentinel"

\* events the callback and the debug loop have put so far
Emitted == Cardinality({i \in DOMAIN event_queue :
                           event_queue[i] \in CallbackEvents \cup {"debug"}})

finalize_events_completing_twice(has_streamed_content) ==
    <<"complete", "complete", "phase">>
\* lines 613-645: the finish chunk, complete, the end of the formal phase
finalize_events(has_streamed_content) ==
    (IF has_streamed_content THEN <<"message">> ELSE <<>>) \o <<"complete", "phase">>

QueueInit ==
    /\ event_queue = <<>>
    /\ consumed = 0
    /\ producer = "created"
    /\ consumer = "reading"
    /\ \E debug \in BOOLEAN :
         run = [debug |-> debug, has_streamed_content |-> FALSE, result |-> "none",
                persisted |-> "none"]
    /\ GraphIdle /\ ReducerIdle /\ LockIdle /\ StreamIdle /\ ConnIdle
    /\ ChunkIdle /\ VectorIdle /\ SqlIdle /\ RegistryIdle /\ AputIdle
    /\ JsonIdle /\ PlanIdle

\* run_graph_and_finalize up to its first await
RunStart ==
    /\ producer = "created"
    /\ event_queue' = Append(event_queue, "phase")
    /\ producer' = IF run.debug THEN "astream_events" ELSE "ainvoke"
    /\ UNCHANGED <<consumed, consumer, run>>
    /\ UNCHANGED queueOthers

\* the debug loop passes one event of the graph on
DebugEvent ==
    /\ producer = "astream_events"
    /\ Emitted < MaxEvents
    /\ event_queue' = Append(event_queue, "debug")
    /\ UNCHANGED <<consumed, producer, consumer, run>>
    /\ UNCHANGED queueOthers

\* stream_callback, called by a node of the running graph
CallbackEvent ==
    /\ producer \in {"astream_events", "ainvoke"}
    /\ Emitted < MaxEvents
    /\ \E e \in CallbackEvents :
        /\ event_queue' = Append(event_queue, e)
        /\ run' = [run EXCEPT !.has_streamed_content = @ \/ e = "partial_ai"]
    /\ UNCHANGED <<consumed, producer, consumer>>
    /\ UNCHANGED queueOthers

\* the debug loop ends: with the output of on_end the run is over and the
\* finish follows; without it, or when astream_events raised (swallowed,
\* line 603), the formal phase starts
DebugEnds ==
    /\ producer = "astream_events"
    /\ \E o \in {"output", "no output", "raises"} :
        IF o = "output"
        THEN /\ event_queue' = event_queue \o <<"phase">>
                                 \o finalize_events(run.has_streamed_content)
             /\ run' = [run EXCEPT !.result = "ok"]
             /\ producer' = "persist"
        ELSE /\ event_queue' = event_queue
                                 \o (IF o = "raises" THEN <<>> ELSE <<"phase">>)
                                 \o <<"phase">>
             /\ run' = run
             /\ producer' = "ainvoke"
    /\ UNCHANGED <<consumed, consumer>>
    /\ UNCHANGED queueOthers

\* graph.ainvoke returns: the finish up to the await of the persistence; or
\* it raises: the except clause puts error and the sentinel
AinvokeEnds ==
    /\ producer = "ainvoke"
    /\ \E ok \in BOOLEAN :
        IF ok
        THEN /\ event_queue' = event_queue \o finalize_events(run.has_streamed_content)
             /\ run' = [run EXCEPT !.result = "ok"]
             /\ producer' = "persist"
        ELSE /\ event_queue' = event_queue \o <<"error", done_sentinel>>
             /\ run' = [run EXCEPT !.result = "raised"]
             /\ producer' = "finished"
    /\ UNCHANGED <<consumed, consumer>>
    /\ UNCHANGED queueOthers

\* what lines 649-687 do with the assistant message: the insert is made, the
\* insert (or pg_touch_thread) raises and that is printed, or nothing was
\* streamed and the result holds no text
PersistOutcomes(has_streamed_content) ==
    {"written", "raised"} \cup (IF has_streamed_content THEN {} ELSE {"no text"})

\* lines 649-694: the persistence of the assistant message, then the sentinel
\* is put
PersistEnds ==
    /\ producer = "persist"
    /\ \E o \in PersistOutcomes(run.has_streamed_content) :
         run' = [run EXCEPT !.persisted = o]
    /\ event_queue' = Append(event_queue, done_sentinel)
    /\ producer' = "finished"
    /\ UNCHANGED <<consumed, consumer>>
    /\ UNCHANGED queueOthers

\* one turn of the consumer loop
ConsumerGet ==
    /\ consumer = "reading"
    /\ consumed < Len(event_queue)
    /\ consumed' = consumed + 1
    /\ consumer' = IF event_queue[consumed + 1] = done_sentinel
                   THEN "joining" ELSE "reading"
    /\ UNCHANGED <<event_queue, producer, run>>
    /\ UNCHANGED queueOthers

\* await producer_task
ConsumerJoin ==
    /\ consumer = "joining"
    /\ producer = "finished"
    /\ consumer' = "done"
    /\ UNCHANGED <<event_queue, consumed, producer, run>>
    /\ UNCHANGED queueOthers

QueueNext ==
    \/ RunStart
    \/ DebugEvent
    \/ CallbackEvent
    \/ DebugEnds
    \/ AinvokeEnds
    \/ PersistEnds
    \/ ConsumerGet
    \/ ConsumerJoin

SpecQueue == QueueInit /\ [][QueueNext]_vars

\* The client goes away while the consumer loop waits in event_queue.get()
\* or stands at a yield: the generator is cancelled or closed there
\* (CancelledError and GeneratorExit pass except Exception) and no line of it
\* runs any more.  producer_task was started with asyncio.create_task and
\* the generator never cancels it.
producer_cancelled_with_consumer(p) == IF p = "finished" THEN p ELSE "cancelled"
producer_after_disconnect(p) == p

ClientDisconnect ==
    /\ consumer \in {"reading", "joining"}
    /\ consumer' = "gone"
    /\ producer' = producer_after_disconnect(producer)
    /\ UNCHANGED <<event_queue, consumed, run>>
    /\ UNCHANGED queueOthers

DisconnectNext == QueueNext \/ ClientDisconnect

SpecDisconnect == QueueInit /\ [][DisconnectNext]_vars

\* the event loop runs the producer task whenever it can run, and the run,
\* the debug loop and the persistence come to an end
SpecDisconnectLive ==
    /\ SpecDisconnect
    /\ WF_vars(RunStart) /\ WF_vars(DebugEnds) /\ WF_vars(AinvokeEnds)
    /\ WF_vars(PersistEnds)

\* the event loop runs every task that can run, and the run, the debug loop
\* and the persistence come to an end
SpecQueueLive ==
    /\ QueueInit /\ [][QueueNext]_vars
    /\ WF_vars(RunStart) /\ WF_vars(DebugEnds) /\ WF_vars(AinvokeEnds)
    /\ WF_vars(PersistEnds) /\ WF_vars(ConsumerGet) /\ WF_vars(ConsumerJoin)

\* ------------------------------------------------- the stream callback
\* stream_callback of one request (server.py 495-546): the nodes of the
\* running graph call it with a token, tool calls and an event type; it keeps
\* current_content, has_streamed_content and tool_calls and pushes events.
\* A string is the sequence of its characters.  max_chunk_size is 200 in the
\* source (the default of split_token_into_chunks) and is scaled down here.
max_chunk_size == 2
MaxTokenLen == 3
MaxCallbacks == 2

Chars == {"a", "b"}
Tokens == UNION {[1..n -> Chars] : n \in 0..MaxTokenLen}
CallLists == {<<>>, <<"mysql_simple_query_tool">>}
EventTypes == {None, "on_tool_end", "tool_result", "approval_required"}

Min(a, b) == IF a < b THEN a ELSE b

\* the token cut after every n characters, the rest as the last chunk
RECURSIVE split_token_into_chunks_of(_, _)
split_token_into_chunks_of(token, n) ==
    IF token = <<>> THEN <<>>
    ELSE <<SubSeq(token, 1, Min(n, Len(token)))>>
           \o split_token_into_chunks_of(SubSeq(token, Min(n, Len(token)) + 1, Len(token)), n)

split_token_into_chunks(token) == split_token_into_chunks_of(token, max_chunk_size)

\* the payload of one partial_ai event: the accumulated content of the whole
\* token, the chunk as delta
partial_ai(content, chunk, calls) ==
    [event |-> "partial_ai", content |-> content, delta |-> chunk, tool_calls |-> calls]

\* what stream_callback pushes for the event type, after the chunks
special_events(token, calls, event_type) ==
    IF event_type = "on_tool_end"
    THEN <<[event |-> "on_tool_end", content |-> <<>>, delta |-> <<>>, tool_calls |-> <<>>]>>
    ELSE IF event_type = "tool_result"
    THEN <<[event |-> "tool_result", content |-> token, delta |-> <<>>, tool_calls |-> calls]>>
    ELSE IF event_type = "approval_required"
    THEN <<[event |-> "approval_required", content |-> <<>>, delta |-> <<>>, tool_calls |-> calls]>>
    ELSE <<>>

ChunkInit ==
    /\ cb = [current_content |-> <<>>, has_streamed_content |-> FALSE,
             tool_calls |-> <<>>, calls |-> 0]
    /\ pushed = <<>>
    /\ GraphIdle /\ ReducerIdle /\ LockIdle /\ StreamIdle /\ ConnIdle
    /\ VectorIdle /\ SqlIdle /\ RegistryIdle /\ AputIdle /\ JsonIdle
    /\ PlanIdle /\ QueueIdle

\* one call of stream_callback(token, calls, event_type)
StreamCallback ==
    /\ cb.calls < MaxCallbacks
    /\ \E token \in Tokens, calls \in CallLists, event_type \in EventTypes :
        LET tool_calls == cb.tool_calls \o calls
            content == cb.current_content \o token
            chunks == split_token_into_chunks(token)
        IN /\ cb' = [current_content |-> content,
                     has_streamed_content |-> cb.has_streamed_content \/ token # <<>>,
                     tool_calls |-> tool_calls,
                     calls |-> cb.calls + 1]
           /\ pushed' = pushed
                \o [i \in DOMAIN chunks |->
                      partial_ai(content, chunks[i],
                                 IF calls # <<>> THEN calls ELSE tool_calls)]
                \o special_events(token, calls, event_type)
    /\ UNCHANGED chunkOthers

ChunkNext == StreamCallback

SpecChunks == ChunkInit /\ [][ChunkNext]_vars

\* ------------------------------------------------- the vector sub-graph
\* The compiled vector sub-graph (create_graph, graph.py 1696-1725) node by
\* node, on the input of one Send: vec_in and messages, no other channel set.
\* A candidate is written as its score in tenths.
MaxHits == 3
rag_min_score == 5

Scores == {3, 5, 8}
CandidateLists == UNION {[1..n -> Scores] : n \in 0..MaxHits}

Max(a, b) == IF a > b THEN a ELSE b
RECURSIVE top1_of(_)
top1_of(candidates) ==
    IF candidates = <<>> THEN 0
    ELSE Max(Head(candidates), top1_of(Tail(candidates)))

\* _compute_confidence: hits and top1 (avg and margin are not read)
_compute_confidence(candidates) ==
    [hits |-> Len(candidates), top1 |-> top1_of(candidates)]

\* the low-confidence rule of vector_assess
low_confidence(metrics) == metrics.hits = 0 \/ metrics.top1 < rag_min_score

\* create_graph._route_after_vector_assess
route_after_vector_assess(s) ==
    IF s.vector_decision = "rewrite" THEN "vector_rewrite"
    ELSE IF s.vector_decision = "fallback" THEN "vector_fallback"
    ELSE "vector_answer"

\* int(state.get('retrieval_attempts') or 0); a channel that is not set is
\* written <<>>, one that holds n is written <<n>>
retrieval_attempts_of(s) ==
    IF s.retrieval_attempts = <<>> THEN 0 ELSE s.retrieval_attempts[1]

VectorInit ==
    /\ vec = [retrieval_attempts |-> <<>>, vector_candidates |-> <<>>,
              vector_decision |-> None, low |-> FALSE, vec_results |-> <<>>]
    /\ vnode = "vector_prepare"
    /\ vtrail = <<>>
    /\ GraphIdle /\ ReducerIdle /\ LockIdle /\ StreamIdle /\ ConnIdle
    /\ SqlIdle /\ RegistryIdle /\ AputIdle /\ JsonIdle /\ PlanIdle
    /\ QueueIdle /\ ChunkIdle

\* vector_prepare: retrieval_attempts starts at 0
vector_prepare ==
    /\ vnode = "vector_prepare"
    /\ vec' = [vec EXCEPT !.retrieval_attempts = <<0>>]
    /\ vnode' = "vector_fetch_evidence"
    /\ vtrail' = Append(vtrail, vnode)
    /\ UNCHANGED vectorOthers

\* vector_fetch_evidence: what the search tool returns; nothing when the
\* tool raises or is missing
vector_fetch_evidence ==
    /\ vnode = "vector_fetch_evidence"
    /\ \E evidences \in CandidateLists :
         vec' = [vec EXCEPT !.vector_candidates = evidences]
    /\ vnode' = "vector_assess"
    /\ vtrail' = Append(vtrail, vnode)
    /\ UNCHANGED vectorOthers

\* vector_assess and the conditional edge after it
VectorAssess ==
    /\ vnode = "vector_assess"
    /\ LET attempts == retrieval_attempts_of(vec)
           low == low_confidence(_compute_confidence(vec.vector_candidates))
           decision == vector_assess([low |-> low], attempts)
       IN /\ vec' = [vec EXCEPT !.vector_decision = decision, !.low = low]
          /\ vnode' = route_after_vector_assess(vec')
    /\ vtrail' = Append(vtrail, IF vec'.low THEN "vector_assess low" ELSE "vector_assess")
    /\ UNCHANGED vectorOthers

\* vector_rewrite, then the edge back to vector_fetch_evidence
vector_rewrite ==
    /\ vnode = "vector_rewrite"
    /\ vec' = [vec EXCEPT !.retrieval_attempts = <<retrieval_attempts_of(vec) + 1>>]
    /\ vnode' = "vector_fetch_evidence"
    /\ vtrail' = Append(vtrail, vnode)
    /\ UNCHANGED vectorOthers

\* vector_answer, then END: the candidates as vec_results, or none when the
\* LLM stream raises
vector_answer ==
    /\ vnode = "vector_answer"
    /\ \E raises \in BOOLEAN :
         vec' = [vec EXCEPT !.vec_results =
                              IF raises THEN <<>> ELSE vec.vector_candidates]
    /\ vnode' = "END"
    /\ vtrail' = Append(vtrail, vnode)
    /\ UNCHANGED vectorOthers

\* vector_fallback, then END
vector_fallback ==
    /\ vnode = "vector_fallback"
    /\ vec' = [vec EXCEPT !.vec_results = <<>>]
    /\ vnode' = "END"
    /\ vtrail' = Append(vtrail, vnode)
    /\ UNCHANGED vectorOthers

VectorNext ==
    \/ vector_prepare
    \/ vector_fetch_evidence
    \/ VectorAssess
    \/ vector_rewrite
    \/ vector_answer
    \/ vector_fallback

SpecVector == VectorInit /\ [][VectorNext]_vars

\* every node that can run does run
SpecVectorLive == SpecVector /\ WF_vars(VectorNext)

\* --------------------------------------------------------- the SQL builder
\* _append_pagination and build_query_from_draft (tools/sql/builders.py).  An
\* SQL text is the sequence of the pieces it is put together from, a
\* parameter list a sequence of values.
MaxLimit == 2
MaxOffset == 2
MaxConditions == 2

\* str(n) as the f-string renders it
str_of(n) == <<"0", "1", "2", "3", "4", "5", "6", "7", "8", "9">>[n + 1]

\* _append_pagination: the statement with limit and offset written into it;
\* params is left as it is
_append_pagination(sql, params, limit, offset) ==
    [sql |-> sql \o <<" LIMIT ", str_of(limit)>>
                 \o (IF offset # 0 THEN <<" OFFSET ", str_of(offset)>> ELSE <<>>),
     params |-> params]

\* A condition of a draft: an equality with its value, or a subquery with
\* its draft.  A draft of the subquery has equalities only.  limit = 0 also
\* stands for a draft without limit, offset = 0 for one without offset.
EqConds == {[kind |-> "eq", value |-> v] : v \in {7, 8}}
SubDrafts ==
    [conditions : {<<>>} \cup {<<c>> : c \in EqConds}, order_by : {FALSE},
     limit : 0..1, offset : {0}]
Conds == EqConds \cup {[kind |-> "subquery", draft |-> d] : d \in SubDrafts}
Drafts ==
    [conditions : UNION {[1..n -> Conds] : n \in 0..MaxConditions},
     order_by : BOOLEAN, limit : 0..MaxLimit, offset : 0..MaxOffset]

RECURSIVE build_conditions(_)
RECURSIVE build_query_from_draft(_)
\* build_conditions: the WHERE clause and the parameters it collects, those
\* of a subquery where the subquery stands
build_conditions(conds) ==
    IF conds = <<>> THEN [sql |-> <<>>, params |-> <<>>]
    ELSE LET c == Head(conds)
             sub == build_query_from_draft(c.draft)
             one == IF c.kind = "eq"
                    THEN [sql |-> <<"f = ", "%s">>, params |-> <<c.value>>]
                    ELSE [sql |-> <<"f IN (">> \o sub.sql \o <<")">>, params |-> sub.params]
             rest == build_conditions(Tail(conds))
         IN [sql |-> one.sql \o (IF rest.sql = <<>> THEN <<>> ELSE <<" AND ">>) \o rest.sql,
             params |-> one.params \o rest.params]

\* build_query_from_draft: the statement, and the parameters it appends to an
\* empty params
build_query_from_draft(draft) ==
    LET where == build_conditions(draft.conditions)
        sql == <<"SELECT * FROM t">>
               \o (IF where.sql = <<>> THEN <<>> ELSE <<" WHERE ">> \o where.sql)
               \o (IF draft.order_by THEN <<" ORDER BY f DESC">> ELSE <<>>)
    IN IF draft.limit > 0
       THEN _append_pagination(sql, where.params, draft.limit, draft.offset)
       ELSE [sql |-> sql, params |-> where.params]

ParamLists == UNION {[1..n -> {7, 8}] : n \in 0..MaxConditions}

SqlInit ==
    /\ \/ \E params \in ParamLists, limit \in 1..MaxLimit, offset \in 0..MaxOffset :
            sq = [pc |-> "call", fn |-> "_append_pagination",
                  sql |-> <<"SELECT * FROM t">>, params |-> params,
                  limit |-> limit, offset |-> offset]
       \/ \E draft \in Drafts :
            sq = [pc |-> "call", fn |-> "build_query_from_draft", draft |-> draft]
    /\ GraphIdle /\ ReducerIdle /\ LockIdle /\ StreamIdle /\ ConnIdle
    /\ RegistryIdle /\ AputIdle /\ JsonIdle /\ PlanIdle /\ QueueIdle
    /\ ChunkIdle /\ VectorIdle

AppendPagination ==
    /\ sq.pc = "call" /\ sq.fn = "_append_pagination"
    /\ sq' = [pc |-> "returned", fn |-> sq.fn, limit |-> sq.limit, offset |-> sq.offset,
              params_before |-> sq.params,
              out |-> _append_pagination(sq.sql, sq.params, sq.limit, sq.offset)]
    /\ UNCHANGED sqlOthers

BuildQueryFromDraft ==
    /\ sq.pc = "call" /\ sq.fn = "build_query_from_draft"
    /\ sq' = [pc |-> "returned", fn |-> sq.fn,
              limit |-> sq.draft.limit, offset |-> sq.draft.offset,
              params_before |-> build_conditions(sq.draft.conditions).params,
              out |-> build_query_from_draft(sq.draft)]
    /\ UNCHANGED sqlOthers

SqlNext == AppendPagination \/ BuildQueryFromDraft

SpecSql == SqlInit /\ [][SqlNext]_vars

\* --------------------------------------------------- the callback registry
\* STREAM_CALLBACKS (graph.py 179-193) with overlapping stream requests.  Each
\* request has its own event_queue and its own stream_callback closure, which
\* pushes on that queue; the callback is written as the request it belongs
\* to.  An event on a queue is tagged with the run whose node made the call.
NumRequests == 2
MaxCalls == 2

Requests == 1..NumRequests
NoCallback == 0
RegistryEvents == {"partial_ai", "approval_required"}

\* register_stream_callback(thread_id, cb)
register_stream_callback(reg, thread_id, callback) ==
    [reg EXCEPT ![thread_id] = callback]

\* STREAM_CALLBACKS.get(thread_id)
lookup_stream_callback(reg, thread_id) == reg[thread_id]

RegistryInit ==
    /\ STREAM_CALLBACKS = [t \in ThreadIds |-> NoCallback]
    /\ runs \in [Requests -> [thread : ThreadIds, pc : {"new"}, calls : {0}]]
    /\ sse_queues = [r \in Requests |-> <<>>]
    /\ GraphIdle /\ ReducerIdle /\ LockIdle /\ StreamIdle /\ ConnIdle
    /\ AputIdle /\ JsonIdle /\ PlanIdle /\ QueueIdle /\ ChunkIdle
    /\ VectorIdle /\ SqlIdle

\* generate_stream of request r up to the start of producer_task: the
\* callback is registered under the thread id, the run is started
RegisterAndStart(r) ==
    /\ runs[r].pc = "new"
    /\ STREAM_CALLBACKS' = register_stream_callback(STREAM_CALLBACKS, runs[r].thread, r)
    /\ runs' = [runs EXCEPT ![r].pc = "running"]
    /\ UNCHANGED sse_queues
    /\ UNCHANGED registryOthers

\* a node of the run of request r calls call_stream_callback(thread_id, ...):
\* the callback found under the thread id pushes the event on its queue
CallStreamCallback(r) ==
    /\ runs[r].pc = "running"
    /\ runs[r].calls < MaxCalls
    /\ \E e \in RegistryEvents :
        LET callback == lookup_stream_callback(STREAM_CALLBACKS, runs[r].thread)
        IN sse_queues' = IF callback = NoCallback THEN sse_queues
                         ELSE [sse_queues EXCEPT
                                 ![callback] = Append(@, [run |-> r, event |-> e])]
    /\ runs' = [runs EXCEPT ![r].calls = @ + 1]
    /\ UNCHANGED STREAM_CALLBACKS
    /\ UNCHANGED registryOthers

\* the run of request r ends; the registry keeps the entry
RunEnds(r) ==
    /\ runs[r].pc = "running"
    /\ runs' = [runs EXCEPT ![r].pc = "finished"]
    /\ UNCHANGED <<STREAM_CALLBACKS, sse_queues>>
    /\ UNCHANGED registryOthers

RegistryNext ==
    \E r \in Requests :
        \/ RegisterAndStart(r)
        \/ CallStreamCallback(r)
        \/ RunEnds(r)

SpecRegistry == RegistryInit /\ [][RegistryNext]_vars

\* ------------------------------------------------------------- properties
AtAggregator == pc = "aggregate_normalize_optional"

\* C1: when the Aggregator is about to run, at any stage of any turn, the
\* barrier counter waiting is 0.  Stated here for the stages all of whose
\* workers returned waiting -1.
C1_BarrierZeroAtAggregator ==
    (AtAggregator /\ stage_log.dec = stage_log.n) => state.waiting = 0

\* C2: every worker of a stage returns waiting -1, whatever its tool call did.
C2_WorkerAlwaysDecrements ==
    \A i \in 1..Len(writes) : "waiting" \in DOMAIN writes[i] /\ writes[i].waiting = -1

\* C3: two checkpoint writes of the same thread_id are never inside the
\* underlying saver at the same time.
C3_SameThreadWritesExclusive ==
    \A w1, w2 \in Writers :
        (w1 # w2 /\ wl_pc[w1] = "saver" /\ wl_pc[w2] = "saver")
            => wl_call[w1].thread_id # wl_call[w2].thread_id

\* C3 at work: a write waits for the lock while a write of the same thread is
\* inside the saver.
C3_Witness ==
    \E w1, w2 \in Writers :
        /\ w1 # w2 /\ wl_pc[w1] = "saver" /\ wl_pc[w2] = "acquire"
        /\ wl_call[w1].thread_id = wl_call[w2].thread_id
        /\ LockKey(w1) = LockKey(w2)

\* C4: the write lock is keyed by the thread_id of the call's config: a write
\* waits for the lock only while a write of the same thread_id holds it.
C4_LockKeyedByThread ==
    \A w1, w2 \in Writers :
        (wl_pc[w1] = "acquire" /\ wl_pc[w2] = "saver" /\ LockKey(w1) = LockKey(w2))
            => wl_call[w1].thread_id = wl_call[w2].thread_id

\* C5: whenever the Aggregator runs with a non-empty concatenation in which
\* only SQL or KG results are present, at whatever stage, it sets agg_route to
\* fast and the Response Writer runs next.
C5_FastPathAtAnyStage ==
    [][(/\ AtAggregator
        /\ state.vec_results = <<>>
        /\ state.sql_results \o state.kg_results # <<>>)
          => (state'.agg_route = "fast" /\ pc' = "response_writer")]_vars

\* C6: after the Aggregator has run, at any stage, merged is the concatenation
\* of sql_results, vec_results and kg_results.
C6_MergedIsConcatenation ==
    [][AtAggregator =>
          state'.merged = state'.sql_results \o state'.vec_results \o state'.kg_results]_vars

\* C7: clearable_list_reducer_v2 returns [] for the update None, the current
\* list for the update [], and current ++ X for a non-empty list X.
C7_ReducerSemantics ==
    red_out.done =>
        /\ (red[2].t = "none" => red_out.v = <<>>)
        /\ (red[1].t = "list" /\ red[2].t = "list" /\ red[2].v = <<>>
               => red_out.v = red[1].v)
        /\ (red[1].t = "list" /\ red[2].t = "list" /\ red[2].v # <<>>
               => red_out.v = red[1].v \o red[2].v)

\* C7 at work: the update [] has left a non-empty list as it was.
C7_Witness ==
    /\ red_out.done
    /\ red[1].t = "list" /\ red[1].v # <<>>
    /\ red[2].t = "list" /\ red[2].v = <<>>
    /\ red_out.v = red[1].v

\* C8: once a run has emitted approval_required it stops: no node runs
\* after collect_base_data.
C8_ApprovalStopsRun == approval_emitted => pc = "idle"

\* C9: the graph never invokes a knowledge-graph write tool itself.
C9_GraphNeverInvokesKgWrite == kg_tool \notin KgWriteTools

\* The requester of stream request r is not the stored owner of its thread
\* when the request arrives: another user, no user, or a thread without owner.
NotOwner(r) ==
    /\ r.owner0 # Absent
    /\ (r.u = None \/ r.owner0 = None \/ r.owner0 # r.u)

\* C10: a stream request by a requester who is not the owner of the thread
\* (no requester and a thread without stored owner included) gets the error
\* event and nothing else: the graph is not run, no user message is persisted.
C10_NotOwnerGetsErrorOnly ==
    (req.pc # "none" /\ NotOwner(req))
        => /\ req.pc # "run"
           /\ (req.pc = "done" => events = <<"message", "error">>)


\* C11: for each thread endpoint, an authenticated user gets the same response
\* for a thread owned by someone else as for an id no thread has, whatever the
\* calls of the request do.  (The response of delete, delete_thread_response,
\* depends on no thread at all.)
C11_OtherOwnerLooksAbsent ==
    \A u \in Users : \A t1, t2 \in ThreadIds :
        (threads[t1] \in Users \ {u} /\ threads[t2] = Absent) =>
            /\ \A o \in StreamOutcomes :
                  generate_stream(threads, t1, u, o) = generate_stream(threads, t2, u, o)
            /\ get_thread_messages(threads, messages, t1, u, TRUE)
                  = get_thread_messages(threads, messages, t2, u, TRUE)
            /\ \A c \in ApprovalCases :
                  approve_tool(threads, messages, t1, u, c[1], c[2]).response
                      = approve_tool(threads, messages, t2, u, c[1], c[2]).response

\* C12: GET messages answers 404 (load_messages null) unless the requester
\* owns the existing thread; only the owner gets a list.
C12_MessagesOnlyForOwner ==
    (last.endpoint = "messages" /\ last.db_ok /\ last.owner0 # last.u)
        => last.response.status = "404"

\* The approval request in last was made by the owner of its thread.
ApprovalByOwner == last.u # None /\ last.owner0 = last.u

\* C13 as stated: the tool is executed only on approve by the owner, and
\* whenever it is executed the decision record was written before it and the
\* tool_result record after it.
C13_ToolBetweenDecisionAndResult ==
    (last.endpoint = "approval" /\ \E i \in 1..Len(last.log) : last.log[i] = "tool")
        => /\ last.body.approve /\ ApprovalByOwner
           /\ last.log = <<"decision", "tool", "tool_result">>

\* C13 amended: the tool is executed only on approve by the owner; the
\* decision row is written before the tool runs unless its insert raises, and
\* the tool_result row is written after the tool returns unless the tool or
\* the insert raises; nothing else is done.
C13_ToolOnlyOnApproveByOwner ==
    last.endpoint = "approval" =>
        LET ran == \E i \in 1..Len(last.log) : last.log[i] = "tool"
            decision == IF last.outcome.decision_ok THEN <<"decision">> ELSE <<>>
            result == IF ~last.outcome.tool_raises /\ last.outcome.result_ok
                      THEN <<"tool_result">> ELSE <<>>
        IN /\ ran => (last.body.approve /\ ApprovalByOwner)
           /\ ran => last.log = decision \o <<"tool">> \o result
           /\ ~ran => last.log \in {<<>>, <<"decision">>}

\* C13 at work: an approved request of the owner has run the tool between the
\* two records.
C13_Witness ==
    /\ last.endpoint = "approval" /\ last.body.approve /\ ApprovalByOwner
    /\ last.log = <<"decision", "tool", "tool_result">>
    /\ <<last.t, "assistant", last.u, "tool_result">> \in messages


\* C14: every checkpointer operation, first attempt or retry, whichever caller
\* issues it, goes out on a connection whose age at that moment is at most
\* connection_max_age; a caller that found the connection older has issued
\* nothing until the connection was replaced.
C14_IssuedOnYoungConnection ==
    \A p \in Callers :
        /\ callers[p].issues > 0 =>
               callers[p].issue_age \in 0..connection_max_age
        /\ callers[p].pc \in {"age_lock", "first_lock"} => callers[p].issues = 0
        /\ callers[p].pc = "closing" /\ callers[p].mode = "ensure" =>
               callers[p].issues = 0
C14_Witness ==
    \E p \in Callers, q \in Callers :
        /\ p # q
        /\ callers[p].pc = "inflight" /\ callers[p].recycled
        /\ callers[q].pc = "inflight" /\ callers[q].mode = "retry"
        /\ now > connection_max_age

\* C15: an operation is tried again only after an error that
\* _is_connection_error accepts, each further attempt follows one reconnect,
\* there are at most max_retry + 1 attempts, and the error of the last
\* permitted attempt, or any error that is not a connection error, is the one
\* raised, at once.
C15_RetryOnlyOnConnectionError ==
    \A p \in Callers :
        LET c == callers[p]
            n == Len(c.errors)
        IN  /\ c.issues <= max_retry + 1
            /\ c.attempt <= max_retry
            /\ c.attempt = c.reconnects
            /\ c.issues > 0 => c.issues = c.reconnects + 1
            /\ \A i \in 1..(n - 1) : c.errors[i].needles # {}
            /\ n > 0 /\ (c.errors[n].needles = {} \/ n = max_retry + 1) =>
                   /\ c.pc = "failed"
                   /\ c.raised = c.errors[n]
                   /\ c.reconnects = n - 1
            /\ c.mode = "retry" => n > 0 /\ c.errors[1].needles # {}
C15_Witness ==
    \E p \in Callers, q \in Callers :
        /\ callers[p].pc = "failed" /\ callers[p].issues = max_retry + 1
        /\ callers[p].raised.needles # {}
        /\ callers[q].pc = "failed" /\ callers[q].issues = 1
        /\ callers[q].raised \in Errors /\ callers[q].raised.needles = {}

\* C16: for one checkpoint the adapter calls the inner aput at most twice;
\* the second call is made exactly when the first raised, with the first
\* call's other arguments and its metadata cut down to the keys source, step
\* and parents; aput returns only the result of a call that succeeded and
\* raises when the last call it made raised, so no checkpoint is dropped
\* without an exception.
C16_AtMostTwoInnerCalls ==
    ap.pc # "idle" =>
        LET n == Len(ap.calls) IN
        /\ n <= 2
        /\ n = 2 <=> (Len(ap.outcomes) >= 1 /\ ap.outcomes[1] = "raise")
        /\ n = 2 =>
             /\ ap.calls[2].nargs = ap.calls[1].nargs
             /\ ap.calls[2].metadata.py = "dict"
             /\ DOMAIN ap.calls[2].metadata.d \subseteq {"source", "step", "parents"}
             /\ \A k \in {"source", "step", "parents"} :
                  (ap.calls[1].metadata.py = "dict"
                      /\ k \in DOMAIN ap.calls[1].metadata.d)
                  => /\ k \in DOMAIN ap.calls[2].metadata.d
                     /\ ap.calls[2].metadata.d[k] = ap.calls[1].metadata.d[k]
        /\ ap.pc = "returned" <=> (n >= 1 /\ Len(ap.outcomes) = n /\ ap.outcomes[n] = "ok")
        /\ ap.pc = "raised" <=>
             (Len(ap.outcomes) = n /\ (n = 0 \/ (n = 2 /\ ap.outcomes[2] = "raise")))
C16_Witness ==
    /\ ap.pc = "raised"
    /\ Len(ap.calls) = 2
    /\ ap.calls[1].metadata.py = "dict"
    /\ DOMAIN ap.calls[1].metadata.d = {"source", "step", "parents", "thread_id"}
    /\ DOMAIN ap.calls[2].metadata.d = {"source", "step", "parents"}

\* C17: every value the engine puts into state is read back, through
\* _to_jsonable and then _from_jsonable, as a value of the same kind equal to
\* the one written.
C17_RoundTripIsIdentity ==
    js.pc = "read" => js.loaded = js.value

\* C18: plan_node never raises and returns stage_index = 0 with a plan of at
\* least one stage whose first stage has a step with when not false: the
\* plan of the LLM when that passed the validation, the one-stage one-step
\* fallback plan otherwise.
C18_PlanNodeAlwaysReturnsAPlan ==
    /\ pl.pc # "raised"
    /\ pl.pc = "returned" =>
         /\ pl.out.stage_index = 0
         /\ pl.out.plan.nstages >= 1
         /\ exec_steps(pl.out.plan.stage.steps) # <<>>
         /\ \/ /\ ~pl.llm.raises
               /\ pl.out.plan = [nstages |-> pl.llm.nstages, stage |-> pl.llm.first]
            \/ /\ pl.out.plan.nstages = 1
               /\ Len(pl.out.plan.stage.steps) = 1

PositionsOf(types) == {i \in DOMAIN event_queue : event_queue[i] \in types}
TerminalMatchesRun ==
    \A i \in PositionsOf(Terminals) :
        event_queue[i] = (IF run.result = "ok" THEN "complete" ELSE "error")
EndsOnce ==
    /\ Cardinality(PositionsOf(Terminals)) <= 1
    /\ Cardinality(PositionsOf({done_sentinel})) <= 1
    /\ \A i \in PositionsOf({done_sentinel}) :
          /\ i = Len(event_queue)
          /\ PositionsOf(Terminals) # {}
    /\ run.result # "none" => TerminalMatchesRun
    /\ producer = "finished" <=> PositionsOf({done_sentinel}) # {}
    /\ producer = "finished" => Cardinality(PositionsOf(Terminals)) = 1
    /\ consumer \in {"joining", "done"} <=>
          (consumed > 0 /\ event_queue[consumed] = done_sentinel)

\* C19: a started stream ends exactly once: one terminal event, complete for
\* a run that succeeded and error for one that raised, then one sentinel as
\* the last item of the queue; the consumer loop stops when it has taken the
\* sentinel, and it does so whatever the outcome of the run.
C19_StreamEndsExactlyOnce == []EndsOnce /\ <>(consumer = "done")
C19_Witness ==
    /\ consumer = "done"
    /\ run.result = "raised"
    /\ run.has_streamed_content
    /\ consumed = Len(event_queue)

\* C20: in a run that does not end in error nothing but the sentinel is put
\* on the queue after complete.
C20_CompleteIsLastEvent ==
    \A i \in PositionsOf({"complete"}) :
        \A j \in (i + 1)..Len(event_queue) : event_queue[j] = done_sentinel

\* a is a proper prefix of b
IsStrictPrefix(a, b) == Len(a) < Len(b) /\ SubSeq(b, 1, Len(a)) = a
\* the content of the partial_ai events pushed so far, by position
PartialContents ==
    LET idx == {i \in DOMAIN pushed : pushed[i].event = "partial_ai"}
    IN [i \in idx |-> pushed[i].content]
\* C21: within one run the content of each partial_ai event strictly extends
\* the content of the partial_ai event before it, for tokens of any length.
C21_PartialContentGrowsStrictly ==
    \A i, j \in DOMAIN PartialContents :
        (i < j /\ \A k \in DOMAIN PartialContents : ~(i < k /\ k < j))
            => IsStrictPrefix(PartialContents[i], PartialContents[j])

\* C22: in a turn classified regular the run ends after Collect-Base:
\* neither Simple-Response nor Planner is executed in that run.
C22_RegularTurnEndsAfterCollect ==
    state.intent = "regular" => pc \notin {"simple_response", "planner"}

EvidenceEmpty == \A k \in ListChannels : state[k] = <<>>
\* from the end of Collect-Base until the first workers of the turn have
\* returned
BeforeFirstWorkers ==
    \/ pc \in {"simple_response", "planner", "set_barrier"}
    \/ pc \in {"Orchestrator", "workers"} /\ state.stage_index = 0
\* C23: Collect-Base resets sql_results, vec_results, kg_results and merged
\* to [] whatever the checkpoint held, and nothing before the workers of the
\* current turn adds records: until the first workers of the turn have
\* returned the four fields are empty, so every record the Planner, the
\* Aggregator or the Writer sees is one of this turn.
C23_NoStaleEvidenceBeforeWorkers == BeforeFirstWorkers => EvidenceEmpty
\* the second turn of a thread whose first turn ended on the fast route, that
\* is with records in merged and in sql_results or kg_results, has passed
\* Collect-Base and stands at the Planner
C23_Witness ==
    /\ turn = 2 /\ pc = "planner"
    /\ state.agg_route = "fast"
    /\ EvidenceEmpty

\* what holds of the producer at every moment, with or without a client
ProducerRunsToItsEnd ==
    /\ producer # "cancelled"
    /\ producer = "finished" =>
         /\ event_queue # <<>> /\ event_queue[Len(event_queue)] = done_sentinel
         /\ run.result = "ok" => run.persisted # "none"
         /\ (run.result = "ok" /\ run.has_streamed_content) => run.persisted # "no text"
\* C24: when the client disconnects and the consumer exits in the middle of a
\* run the producer is not cancelled: the run goes on to its end, the
\* persistence of the assistant message is carried out as in a run with the
\* client present, the sentinel is put, and the events pushed after the
\* disconnect neither block nor fail the run.
C24_ProducerSurvivesDisconnect == []ProducerRunsToItsEnd /\ <>(producer = "finished")
\* the client left before the run had ended; the producer pushed events after
\* that, finished and wrote the assistant message
C24_Witness ==
    /\ consumer = "gone"
    /\ producer = "finished"
    /\ run.persisted = "written"
    /\ consumed + 2 < Len(event_queue)
    /\ \E i \in (consumed + 1)..Len(event_queue) : event_queue[i] = "partial_ai"

EndsWith(s, tail) ==
    Len(s) >= Len(tail) /\ SubSeq(s, Len(s) - Len(tail) + 1, Len(s)) = tail
\* C25: pagination is parameterized: for every limit and non-zero offset
\* _append_pagination, and build_query_from_draft through it, gives SQL that
\* ends with LIMIT %s OFFSET %s and appends limit and then offset to the
\* parameters, after those of the WHERE clause and of any subquery.
C25_PaginationIsParameterized ==
    (sq.pc = "returned" /\ sq.limit > 0 /\ sq.offset # 0) =>
        /\ EndsWith(sq.out.sql, <<" LIMIT ", "%s", " OFFSET ", "%s">>)
        /\ sq.out.params = sq.params_before \o <<sq.limit, sq.offset>>

\* the nodes of the Planner path after plan_node and before response_writer
AfterPlanner == {"set_barrier", "Orchestrator", "workers", "aggregate_normalize_optional"}
\* C26: every run that takes the Planner path ends after Response Writer has
\* run once, for every plan the planner can return: once plan_node has
\* returned a plan, no node but response_writer is the last of the run.
C26_PlannerPathEndsAtWriter == [][(pc \in AfterPlanner) => (pc' # "idle")]_vars

\* C27: the route after Collect-Base depends only on what the current turn
\* produced; Planner is taken iff this turn's intent is tool and this turn's
\* probe returned tool calls that need no approval.  A turn whose probe
\* returned a tool call that needs approval therefore goes to Simple-Response,
\* whatever candidate_tool_calls an earlier turn left in the checkpoint.
C27_RouteFromThisTurnOnly ==
    [][(pc = "collect_base_data" /\ approval_emitted') => (pc' = "simple_response")]_vars

IsPrefix(a, b) == Len(a) <= Len(b) /\ SubSeq(b, 1, Len(a)) = a
FirstPass == <<"vector_prepare", "vector_fetch_evidence">>
SecondPass ==
    FirstPass \o <<"vector_assess low", "vector_rewrite", "vector_fetch_evidence">>
\* the three complete runs: an answer at once, an answer after one Rewrite,
\* the Fallback after one Rewrite
VectorRuns ==
    {FirstPass \o <<"vector_assess", "vector_answer">>,
     SecondPass \o <<"vector_assess", "vector_answer">>,
     SecondPass \o <<"vector_assess low", "vector_fallback">>}
VectorRunIsOneOfThree ==
    /\ \E r \in VectorRuns : IsPrefix(vtrail, r)
    /\ vnode = "END" => vtrail \in VectorRuns
\* C28: with rag_attempts_max = 1 a low-confidence assessment leads to exactly
\* one Rewrite followed by a second Fetch and Assess, a second low-confidence
\* assessment leads to Fallback, and the sub-graph always ends in Answer or
\* Fallback after at most two fetches and at most one Rewrite.
C28_OneRewriteThenFallback == []VectorRunIsOneOfThree /\ <>(vnode = "END")
\* a run that was low twice: one Rewrite, two fetches, ended in Fallback
C28_Witness ==
    /\ vnode = "END"
    /\ vtrail = SecondPass \o <<"vector_assess low", "vector_fallback">>
    /\ vec.retrieval_attempts = <<1>>

\* C29: every event put on a request's SSE queue was produced by that
\* request's own graph run, also when two stream requests on the same
\* thread_id overlap.
C29_EventsOfOwnRunOnly ==
    \A r \in Requests : \A i \in DOMAIN sse_queues[r] : sse_queues[r][i].run = r

\* C30: the checkpointer never closes a connection, by age-based recycling or
\* by an error-triggered reconnect, while an operation of another caller is
\* still in flight on that connection.
C30_NoCloseUnderOperationInFlight ==
    \A q \in Callers : ~callers[q].closed_under
====
